---- MODULE Spec2Model ----
(***************************************************************************)
(* Verdantis streaming alerts pipeline: the subscription filter engine     *)
(* (modules/m10/m10_1_filters.py), the dedupe and flap suppressor          *)
(* (m10_3_dedupe.py), the channel router (m10_2_channels.py) and the role  *)
(* projections (modules/m11/m11_2_regulator.py, m11_4_public.py).          *)
(*                                                                         *)
(* Conventions.  A JSON object (Python dict) is a function whose DOMAIN is *)
(* its key set; a JSON list is a sequence.  Python's None / JSON null is   *)
(* the value None.  Times are whole seconds since an arbitrary epoch T;    *)
(* floats of the delta maps are scaled by 100 (0.2 is 20).                 *)
(***************************************************************************)
EXTENDS Integers, Sequences, FiniteSets, TLC

VARIABLES
    \* filter engine: inputs, outputs, position
    f_events, f_filters, f_matched, f_metrics, f_pc,
    \* dedupe: config, the matched input of each run, run and record position,
    \* in-memory state object, state file, kept list, suppressed counter,
    \* deduped output file, metrics file, wall clock, decision log (history),
    \* state file as the run found it (history)
    d_cfg, d_runs, d_run, d_idx, d_pc, d_state, d_state_file, d_kept,
    d_suppressed, d_out, d_metrics, d_clock, d_log, d_prior,
    \* router: routes, global limits, matched input, record index (from 0),
    \* attempt position within the record, counters, result records, outbox
    \* files, results and metrics files, wall clock
    r_routes, r_gl, r_matched, r_idx, r_att, r_pc, r_sent, r_skipped,
    r_global_used, r_per_chan_limit_used, r_per_channel_sent,
    r_per_channel_skipped, r_details, r_outbox, r_results_file,
    r_metrics_file, r_clock,
    \* router: number of the run, outbox as the run found it (history)
    r_run, r_outbox_before,
    \* public portal: config, deduped input, the three files written, wall clock
    p_cfg, p_deduped, p_feed, p_scores, p_metrics, p_pc, p_clock,
    \* regulator portal: deduped input, bundle index, asset locations, the
    \* three files written, wall clock
    g_deduped, g_bundles, g_locs, g_violations, g_heatmap, g_metrics, g_pc, g_clock,
    \* audit requests: the log file, each caller's position, log as read and
    \* record, wall clock in half seconds, calls started, and as history the
    \* log at the start, the records of the completed calls, whether two
    \* calls overlapped
    a_file, a_pc, a_log, a_rec, a_clock, a_calls, a_init, a_done, a_overlapped,
    \* auth: config, user store, clock in seconds, position, and as history
    \* the logins and the verifications made
    u_cfg, u_store, u_clock, u_pc, u_logins, u_verifies,
    \* investor portal: deduped input, today's date, the risk trajectory
    \* written, position
    i_deduped, i_today, i_traj, i_pc,
    \* regulator commands of the command line: deduped input, clock in
    \* seconds, the regulator output directory, the audit log file, and as
    \* history the commands run with their token and exit code
    k_deduped, k_clock, k_out, k_log, k_hist

fvars == <<f_events, f_filters, f_matched, f_metrics, f_pc>>
dvars == <<d_cfg, d_runs, d_run, d_idx, d_pc, d_state, d_state_file, d_kept,
           d_suppressed, d_out, d_metrics, d_clock, d_log, d_prior>>

rvars == <<r_routes, r_gl, r_matched, r_idx, r_att, r_pc, r_sent, r_skipped,
           r_global_used, r_per_chan_limit_used, r_per_channel_sent,
           r_per_channel_skipped, r_details, r_outbox, r_results_file,
           r_metrics_file, r_clock, r_run, r_outbox_before>>

pvars == <<p_cfg, p_deduped, p_feed, p_scores, p_metrics, p_pc, p_clock>>

gvars == <<g_deduped, g_bundles, g_locs, g_violations, g_heatmap, g_metrics, g_pc,
           g_clock>>

avars == <<a_file, a_pc, a_log, a_rec, a_clock, a_calls, a_init, a_done,
           a_overlapped>>

uvars == <<u_cfg, u_store, u_clock, u_pc, u_logins, u_verifies>>

ivars == <<i_deduped, i_today, i_traj, i_pc>>

kvars == <<k_deduped, k_clock, k_out, k_log, k_hist>>

vars == <<fvars, dvars, rvars, pvars, gvars, avars, uvars, ivars, kvars>>

\* the variables of the other commands
NotFilter == <<dvars, rvars, pvars, gvars, avars, uvars, ivars, kvars>>
NotDedupe == <<fvars, rvars, pvars, gvars, avars, uvars, ivars, kvars>>
NotRouter == <<fvars, dvars, pvars, gvars, avars, uvars, ivars, kvars>>
NotPublic == <<fvars, dvars, rvars, gvars, avars, uvars, ivars, kvars>>
NotRegulator == <<fvars, dvars, rvars, pvars, avars, uvars, ivars, kvars>>
NotAudit == <<fvars, dvars, rvars, pvars, gvars, uvars, ivars, kvars>>
NotAuth == <<fvars, dvars, rvars, pvars, gvars, avars, ivars, kvars>>
NotInvestor == <<fvars, dvars, rvars, pvars, gvars, avars, uvars, kvars>>
NotCli == <<fvars, dvars, rvars, pvars, gvars, avars, uvars, ivars>>

----------------------------------------------------------------------------
(* Shared helpers *)

None == "<null>"

\* dict.get(k) with default None
Get(d, k) == IF k \in DOMAIN d THEN d[k] ELSE None

\* dict.get(k, dflt)
GetOr(d, k, dflt) == IF k \in DOMAIN d THEN d[k] ELSE dflt

\* Python truthiness of an optional field: an absent (None) list is the empty
\* set and an absent dict the empty function, which the code treats alike
TruthyList(v) == v # {}
TruthyDict(v) == DOMAIN v # {}
TruthyStr(v) == v # None /\ v # ""

\* sequences over S of length 0..n
SeqUpTo(S, n) == UNION {[1..k -> S] : k \in 0..n}

SEVERITY_RANK == [info |-> 0, low |-> 1, medium |-> 2, high |-> 3, critical |-> 4]

\* SEVERITY_RANK.get(sev, 0)
Rank(sev) == IF sev \in DOMAIN SEVERITY_RANK THEN SEVERITY_RANK[sev] ELSE 0

\* a numeric JSON value n, and a value float() rejects
Num(n) == <<"num", n>>
NotNum == <<"str">>
IsNum(v) == Len(v) = 2

----------------------------------------------------------------------------
(* M10.1  Filter engine *)

\* a match that suppresses as soon as one suppress_if pair equals the event's
\* value (the for loop returning instead of breaking)
match_suppress_on_any_pair(flt, event) ==
    IF TruthyList(flt.topics) /\ Get(event, "topic") \notin flt.topics THEN FALSE
    ELSE IF TruthyStr(flt.severity_at_least)
            /\ Rank(GetOr(event, "severity", "info")) < Rank(flt.severity_at_least)
         THEN FALSE
    ELSE IF TruthyList(flt.assets) /\ "*" \notin flt.assets
            /\ Get(event, "asset_id") \notin flt.assets
         THEN FALSE
    ELSE IF TruthyList(flt.rule_types) /\ Get(event, "rule_type") \notin flt.rule_types
         THEN FALSE
    ELSE IF TruthyList(flt.aoi_ids) /\ Get(event, "aoi_id") \notin flt.aoi_ids
         THEN FALSE
    ELSE IF TruthyDict(flt.min_delta)
            /\ LET delta == IF "delta" \in DOMAIN event THEN event["delta"] ELSE <<>>
               IN  \E k \in DOMAIN flt.min_delta :
                     LET dv == GetOr(delta, k, Num(0))
                     IN  IF IsNum(dv) THEN dv[2] < flt.min_delta[k]
                                      ELSE TRUE
         THEN FALSE
    ELSE IF TruthyDict(flt.suppress_if)
            /\ \E k \in DOMAIN flt.suppress_if : Get(event, k) = flt.suppress_if[k]
         THEN FALSE
    ELSE TRUE

\* AlertFilter.match: the predicates in the order the code tests them, each
\* an early "return False".
match(flt, event) ==
    IF TruthyList(flt.topics) /\ Get(event, "topic") \notin flt.topics THEN FALSE
    ELSE IF TruthyStr(flt.severity_at_least)
            /\ Rank(GetOr(event, "severity", "info")) < Rank(flt.severity_at_least)
         THEN FALSE
    ELSE IF TruthyList(flt.assets) /\ "*" \notin flt.assets
            /\ Get(event, "asset_id") \notin flt.assets
         THEN FALSE
    ELSE IF TruthyList(flt.rule_types) /\ Get(event, "rule_type") \notin flt.rule_types
         THEN FALSE
    ELSE IF TruthyList(flt.aoi_ids) /\ Get(event, "aoi_id") \notin flt.aoi_ids
         THEN FALSE
    ELSE IF TruthyDict(flt.min_delta)
            /\ LET delta == IF "delta" \in DOMAIN event THEN event["delta"] ELSE <<>>
               IN  \E k \in DOMAIN flt.min_delta :
                     LET dv == GetOr(delta, k, Num(0))   \* delta.get(k, 0.0)
                     IN  IF IsNum(dv) THEN dv[2] < flt.min_delta[k]
                                      ELSE TRUE          \* TypeError / ValueError
         THEN FALSE
    ELSE IF TruthyDict(flt.suppress_if)
            /\ \A k \in DOMAIN flt.suppress_if : Get(event, k) = flt.suppress_if[k]
         THEN FALSE
    ELSE TRUE

\* inner loop of apply_filters, breaking at the first hit
RECURSIVE apply_filters_event_first_hit(_, _, _)
apply_filters_event_first_hit(ev, flt_list, j) ==
    IF j > Len(flt_list) THEN <<>>
    ELSE IF match(flt_list[j], ev)
         THEN <<[subscription_id |-> flt_list[j].id, event |-> ev]>>
         ELSE apply_filters_event_first_hit(ev, flt_list, j + 1)

\* inner loop of apply_filters: the records one event appends, from filter j on
RECURSIVE apply_filters_event(_, _, _)
apply_filters_event(ev, flt_list, j) ==
    IF j > Len(flt_list) THEN <<>>
    ELSE (IF match(flt_list[j], ev)
          THEN <<[subscription_id |-> flt_list[j].id, event |-> ev]>>
          ELSE <<>>)
         \o apply_filters_event(ev, flt_list, j + 1)

\* outer loop of apply_filters: matched records from event i on
RECURSIVE apply_filters_matched(_, _, _)
apply_filters_matched(events, flt_list, i) ==
    IF i > Len(events) THEN <<>>
    ELSE apply_filters_event(events[i], flt_list, 1)
         \o apply_filters_matched(events, flt_list, i + 1)

\* counts[flt.id]: one increment per appended record of that id
PerSubscription(matched, filters) ==
    [id \in {filters[j].id : j \in 1..Len(filters)} |->
        Cardinality({n \in 1..Len(matched) : matched[n].subscription_id = id})]

apply_filters(events, filters) ==
    LET matched == apply_filters_matched(events, filters, 1)
        unmatched == Cardinality({i \in 1..Len(events) :
                        apply_filters_event(events[i], filters, 1) = <<>>})
    IN  [matched |-> matched,
         metrics |-> [total_events |-> Len(events),
                      unmatched |-> unmatched,
                      per_subscription |-> PerSubscription(matched, filters)]]

\* --- inputs ---

NoPred == [topics |-> {}, severity_at_least |-> None, assets |-> {},
           rule_types |-> {}, aoi_ids |-> {}, min_delta |-> <<>>,
           suppress_if |-> <<>>]

Flt(id, preds) == [k \in {"id"} \cup DOMAIN NoPred |->
                     IF k = "id" THEN id
                     ELSE IF k \in DOMAIN preds THEN preds[k] ELSE NoPred[k]]

policy_high_plus ==
    Flt("policy_high_plus", [topics |-> {"policy.enforcement"},
                             severity_at_least |-> "high", assets |-> {"*"},
                             rule_types |-> {"emissions_exceedance"}])
sat_ndvi_drop ==
    Flt("sat_ndvi_drop", [topics |-> {"sat.change"}, severity_at_least |-> "medium",
                          aoi_ids |-> {"aoi_2"}, min_delta |-> [ndvi |-> 20]])
zk_attest_issues ==
    Flt("zk_attest_issues", [topics |-> {"zk.issue", "zk.verify"},
                             severity_at_least |-> "low", assets |-> {"*"}])
sat_any_delta ==
    Flt("sat_any_delta", [topics |-> {"sat.change"}, min_delta |-> [ndvi |-> 0]])
all_unacked ==
    Flt("all_unacked", [assets |-> {"*"}, suppress_if |-> [acknowledged |-> "true"]])
a1_not_policy ==
    Flt("a1_not_policy", [assets |-> {"a1"},
                          suppress_if |-> [topic |-> "policy.enforcement",
                                           aoi_id |-> None]])

\* a second subscription declared under an id already in use
zk_attest_again ==
    Flt("zk_attest_issues", [topics |-> {"zk.issue"}, assets |-> {"a1"}])

FilterPool == {policy_high_plus, sat_ndvi_drop, zk_attest_issues, sat_any_delta,
               all_unacked, a1_not_policy, zk_attest_again}

e1 == [id |-> "e1", topic |-> "policy.enforcement", severity |-> "high",
       asset_id |-> "a1", rule_type |-> "emissions_exceedance"]
e2 == [id |-> "e2", topic |-> "sat.change", severity |-> "low", asset_id |-> "a1",
       aoi_id |-> "aoi_2", delta |-> [ndvi |-> Num(15)]]
e3 == [id |-> "e3", topic |-> "zk.verify", severity |-> "low", asset_id |-> "a2"]
e4 == [id |-> "e4", topic |-> "sat.change", severity |-> "high", aoi_id |-> "aoi_2",
       delta |-> [ndvi |-> Num(27)]]
e5 == [id |-> "e5", topic |-> "sat.change", severity |-> "high", aoi_id |-> "aoi_2"]
e6 == [id |-> "e6", topic |-> "sat.change", severity |-> "critical", aoi_id |-> "aoi_2",
       delta |-> [ndvi |-> NotNum]]
e7 == [id |-> "e7", topic |-> "sat.change", severity |-> "medium", asset_id |-> "a1",
       aoi_id |-> "aoi_1", acknowledged |-> "true"]

e8 == [id |-> "e8", topic |-> "zk.issue", severity |-> "low", asset_id |-> "a1"]

EventPool == {e1, e2, e3, e4, e5, e6, e7, e8}

MaxEvents == 2
MaxFilters == 2

\* the repository's test of apply_filters (tests/test_m10_filters.py)
TestEvents == <<e1, e2, e3>>
TestFilters == <<policy_high_plus, sat_ndvi_drop, zk_attest_issues>>

\* load_filters: one AlertFilter per item of "subscriptions", in file order;
\* a key the item does not have is None
load_filters(subscriptions) ==
    [j \in 1..Len(subscriptions) |-> Flt(subscriptions[j].id, subscriptions[j])]

FilterInit ==
    /\ \/ /\ f_events \in SeqUpTo(EventPool, MaxEvents)
          /\ f_filters \in SeqUpTo(FilterPool, MaxFilters)
       \/ /\ f_events = TestEvents
          /\ f_filters = TestFilters
    /\ f_matched = <<>>
    /\ f_metrics = None
    /\ f_pc = "start"

FilterIdle ==
    /\ f_events = <<>> /\ f_filters = <<>> /\ f_matched = <<>>
    /\ f_metrics = None /\ f_pc = "idle"

\* run_filters_cli: load both inputs, apply, write matched and metrics
run_filters_cli ==
    /\ f_pc = "start"
    /\ LET r == apply_filters(f_events, load_filters(f_filters))
       IN  /\ f_matched' = r.matched
           /\ f_metrics' = r.metrics
    /\ f_pc' = "done"
    /\ UNCHANGED <<f_events, f_filters>>
    /\ UNCHANGED NotFilter

FilterNext == run_filters_cli

\* --- claims on the filter engine ---

\* The predicates of a subscription as section 4.2 of the specification states
\* them, each one on its own (no evaluation order, no defaults).
HoldsTopics(flt, ev) == "topic" \in DOMAIN ev /\ ev["topic"] \in flt.topics
HoldsSeverity(flt, ev) ==
    Rank(IF "severity" \in DOMAIN ev THEN ev["severity"] ELSE "info")
        >= Rank(flt.severity_at_least)
HoldsAssets(flt, ev) ==
    "*" \in flt.assets \/ ("asset_id" \in DOMAIN ev /\ ev["asset_id"] \in flt.assets)
HoldsRuleTypes(flt, ev) == "rule_type" \in DOMAIN ev /\ ev["rule_type"] \in flt.rule_types
HoldsAoiIds(flt, ev) == "aoi_id" \in DOMAIN ev /\ ev["aoi_id"] \in flt.aoi_ids
HoldsFloor(flt, ev, metric) ==
    /\ "delta" \in DOMAIN ev
    /\ metric \in DOMAIN ev["delta"]
    /\ IsNum(ev["delta"][metric])
    /\ ev["delta"][metric][2] >= flt.min_delta[metric]
MatchesAllSuppressPairs(flt, ev) ==
    \A k \in DOMAIN flt.suppress_if :
        IF k \in DOMAIN ev THEN ev[k] = flt.suppress_if[k]
                           ELSE flt.suppress_if[k] = None

SatisfiesEveryPredicate(flt, ev) ==
    /\ flt.topics # {} => HoldsTopics(flt, ev)
    /\ flt.severity_at_least # None => HoldsSeverity(flt, ev)
    /\ flt.assets # {} => HoldsAssets(flt, ev)
    /\ flt.rule_types # {} => HoldsRuleTypes(flt, ev)
    /\ flt.aoi_ids # {} => HoldsAoiIds(flt, ev)
    /\ \A metric \in DOMAIN flt.min_delta : HoldsFloor(flt, ev, metric)
    /\ DOMAIN flt.suppress_if # {} => ~MatchesAllSuppressPairs(flt, ev)

\* C1 (as claimed): every record returned by apply_filters has an event that
\* satisfies every predicate present on its subscription, every min_delta
\* floor included, and does not match all pairs of its suppress_if.
C1_PredicateSoundness ==
    f_pc = "done" =>
        \A n \in 1..Len(f_matched) :
            \E j \in 1..Len(f_filters) :
                /\ f_filters[j].id = f_matched[n].subscription_id
                /\ SatisfiesEveryPredicate(f_filters[j], f_matched[n].event)

\* the matching (event index, filter index) pairs, and the place of a pair
\* among them in (event, filter) order
MatchingPairs ==
    {p \in (1..Len(f_events)) \X (1..Len(f_filters)) :
        match(f_filters[p[2]], f_events[p[1]])}
PairBefore(p, q) == p[1] < q[1] \/ (p[1] = q[1] /\ p[2] < q[2])
PairPlace(q) == 1 + Cardinality({p \in MatchingPairs : PairBefore(p, q)})

\* C2: the output of apply_filters is exactly the matching (event,
\* subscription) pairs, each once, in event order and, for one event, in
\* subscription-declaration order.
C2_MatchedExactlyInOrder ==
    f_pc = "done" =>
        /\ Len(f_matched) = Cardinality(MatchingPairs)
        /\ \A q \in MatchingPairs :
              f_matched[PairPlace(q)] =
                  [subscription_id |-> f_filters[q[2]].id, event |-> f_events[q[1]]]
        /\ (f_events = TestEvents /\ f_filters = TestFilters) =>
              /\ [n \in 1..Len(f_matched) |-> f_matched[n].event["id"]] = <<"e1", "e3">>
              /\ f_metrics.unmatched = 1

\* C2 witness: two events, the first matched by two subscriptions, and a
\* pair that does not match.
C2_Witness ==
    /\ f_pc = "done"
    /\ Len(f_events) = 2 /\ Len(f_filters) = 2
    /\ {<<1, 1>>, <<1, 2>>, <<2, 2>>} = MatchingPairs

\* two subscriptions of the loaded configuration have the same id
DuplicateSubscriptionId(filters) ==
    \E j, k \in 1..Len(filters) : j # k /\ filters[j].id = filters[k].id

\* C18 (as claimed): a configuration in which two subscriptions have the same
\* id is rejected at load time, so no filter run over such a configuration
\* completes: none reaches the point where matched records and metrics are
\* written.
C18_DuplicateIdRejected ==
    DuplicateSubscriptionId(f_filters) => f_pc # "done" /\ f_matched = <<>> /\ f_metrics = None

\* the event's delta has no value for the metric (or the event has no delta)
LacksMetric(ev, metric) ==
    "delta" \notin DOMAIN ev \/ metric \notin DOMAIN ev["delta"]

\* C19 (as claimed): a subscription with min_delta matches an event only if
\* the event's delta has, for every (metric, floor) pair, a numeric value
\* that is at least the floor; an event whose delta lacks the metric (or that
\* has no delta) is not matched, whatever the floor, zero and negative floors
\* included.
C19_MissingMetricFails ==
    f_pc = "done" =>
        \A q \in MatchingPairs :
            \A metric \in DOMAIN f_filters[q[2]].min_delta :
                /\ ~LacksMetric(f_events[q[1]], metric)
                /\ HoldsFloor(f_filters[q[2]], f_events[q[1]], metric)

\* the subscription without its suppress_if: all its other predicates
WithoutSuppressIf(flt) == [flt EXCEPT !.suppress_if = <<>>]

\* the (event, subscription) pairs whose subscription has a non-empty
\* suppress_if and whose event passes all the other predicates
SuppressiblePairs ==
    {p \in (1..Len(f_events)) \X (1..Len(f_filters)) :
        /\ DOMAIN f_filters[p[2]].suppress_if # {}
        /\ match(WithoutSuppressIf(f_filters[p[2]]), f_events[p[1]])}

\* C20: for a subscription with a non-empty suppress_if and an event that
\* passes all its other predicates, the pair is left out of the output
\* exactly when every (field, value) pair of suppress_if equals the event's
\* value for the field; when one pair differs (or the field is missing and
\* the value is not null) the record is in the output, at its place.
C20_SuppressIfExactlyAllPairs ==
    f_pc = "done" =>
        /\ Len(f_matched) = Cardinality(MatchingPairs)
        /\ \A q \in SuppressiblePairs :
              IF MatchesAllSuppressPairs(f_filters[q[2]], f_events[q[1]])
              THEN q \notin MatchingPairs
              ELSE /\ q \in MatchingPairs
                   /\ f_matched[PairPlace(q)] =
                         [subscription_id |-> f_filters[q[2]].id,
                          event |-> f_events[q[1]]]

\* C20 witness: one subscription with two suppress_if pairs; both equal the
\* first event (left out), only one equals the second event (kept).
C20_Witness ==
    /\ f_pc = "done"
    /\ Len(f_events) = 2
    /\ \E j \in 1..Len(f_filters) :
          LET flt == f_filters[j]
              Equal(i) == {k \in DOMAIN flt.suppress_if :
                              Get(f_events[i], k) = flt.suppress_if[k]}
          IN  /\ {<<1, j>>, <<2, j>>} \subseteq SuppressiblePairs
              /\ Cardinality(DOMAIN flt.suppress_if) = 2
              /\ Equal(1) = DOMAIN flt.suppress_if
              /\ Cardinality(Equal(2)) = 1
              /\ \A n \in 1..Len(f_matched) :
                     f_matched[n].subscription_id = flt.id => f_matched[n].event = f_events[2]
              /\ \E n \in 1..Len(f_matched) : f_matched[n].subscription_id = flt.id

\* C20 witness: the field is missing from the event and the value is not
\* null, and the subscription matches
C20_WitnessMissingField ==
    /\ f_pc = "done"
    /\ \E q \in SuppressiblePairs :
          /\ \E k \in DOMAIN f_filters[q[2]].suppress_if :
                k \notin DOMAIN f_events[q[1]] /\ f_filters[q[2]].suppress_if[k] # None
          /\ q \in MatchingPairs

----------------------------------------------------------------------------

(* M10.3  Dedupe and flap suppression *)

\* dict with key k set to v (d[k] = v)
Put(d, k, v) == [x \in DOMAIN d \cup {k} |-> IF x = k THEN v ELSE d[x]]

\* An optional time is <<>> (None) or <<t>>.  A timestamp string is
\* <<"iso", t>>, as datetime.isoformat() writes it, or a string that does
\* not parse.
isoformat(t) == <<"iso", t>>
Unparseable == <<"not-a-timestamp">>

\* _parse_iso: None, a non-string or a malformed string give None
_parse_iso(ts) == IF Len(ts) = 2 /\ ts[1] = "iso" THEN <<ts[2]>> ELSE <<>>

\* str(v) of a string or None
Str(v) == IF v = None THEN "None" ELSE v

\* _get_nested: a path is its dot-separated parts
_get_nested(obj, path) ==
    IF path = <<"subscription_id">> THEN Get(obj, "subscription_id")
    ELSE IF Len(path) = 0 \/ path[1] # "event" THEN None
    ELSE IF Len(path) = 2 /\ "event" \in DOMAIN obj THEN Get(obj["event"], path[2])
    ELSE None

RECURSIVE JoinBar(_)
JoinBar(vals) ==
    IF Len(vals) = 0 THEN ""
    ELSE IF Len(vals) = 1 THEN vals[1]
    ELSE vals[1] \o "|" \o JoinBar(Tail(vals))

\* _key_from_fields: "|".join(str(_get_nested(rec, f)) for f in fields)
_key_from_fields(rec, fields) ==
    JoinBar([i \in 1..Len(fields) |-> Str(_get_nested(rec, fields[i]))])

\* the event's "ts" string, <<>> when the event has none
EventTsField(rec) == IF "ts" \in DOMAIN rec["event"] THEN rec["event"]["ts"] ELSE <<>>

\* _event_ts: the parsed event time, or the wall clock when it does not parse
ReadsClock(rec) == _parse_iso(EventTsField(rec)) = <<>>
_event_ts(rec, clock) ==
    IF ReadsClock(rec) THEN clock ELSE _parse_iso(EventTsField(rec))[1]

_flap_value(rec, value_field) ==
    IF value_field = <<"subscription_id">> THEN Str(Get(rec, "subscription_id"))
    ELSE IF Len(value_field) > 0 /\ value_field[1] = "event"
         THEN Str(_get_nested(rec, value_field))
    ELSE "None"

\* _is_duplicate with the comparisons made non-strict
_is_duplicate_nonstrict(now_dt, last_sent_ts, ttl_seconds, min_interval_seconds) ==
    IF _parse_iso(last_sent_ts) = <<>> THEN <<FALSE, "">>
    ELSE IF now_dt - _parse_iso(last_sent_ts)[1] <= min_interval_seconds
         THEN <<TRUE, "cooldown">>
    ELSE IF now_dt - _parse_iso(last_sent_ts)[1] <= ttl_seconds
         THEN <<TRUE, "duplicate_ttl">>
    ELSE <<FALSE, "">>

\* _is_duplicate without the ttl test
_is_duplicate_cooldown_only(now_dt, last_sent_ts, ttl_seconds, min_interval_seconds) ==
    IF _parse_iso(last_sent_ts) = <<>> THEN <<FALSE, "">>
    ELSE IF now_dt - _parse_iso(last_sent_ts)[1] < min_interval_seconds
         THEN <<TRUE, "cooldown">>
    ELSE <<FALSE, "">>

\* _is_duplicate: last_sent_ts is <<>> when the entry has none
_is_duplicate(now_dt, last_sent_ts, ttl_seconds, min_interval_seconds) ==
    IF last_sent_ts = <<>> THEN <<FALSE, "">>
    ELSE LET prev == _parse_iso(last_sent_ts)
         IN  IF prev = <<>> THEN <<FALSE, "">>
             ELSE LET age == now_dt - prev[1]
                  IN  IF age < min_interval_seconds THEN <<TRUE, "cooldown">>
                      ELSE IF age < ttl_seconds THEN <<TRUE, "duplicate_ttl">>
                      ELSE <<FALSE, "">>

\* the entries of a history inside the window, as their values, in order
RECURSIVE WithinWindow(_, _)
WithinWindow(history, cutoff) ==
    IF Len(history) = 0 THEN <<>>
    ELSE LET ts == _parse_iso(history[1][1])
         IN  (IF ts # <<>> /\ ts[1] >= cutoff THEN <<history[1][2]>> ELSE <<>>)
             \o WithinWindow(Tail(history), cutoff)

\* the second loop of _is_flapping: value changes along the list
RECURSIVE CountChanges(_)
CountChanges(within) ==
    IF Len(within) < 2 THEN 0
    ELSE (IF within[2] # within[1] THEN 1 ELSE 0) + CountChanges(Tail(within))

_is_flapping(now_dt, history, new_value, window_seconds, max_changes) ==
    LET cutoff == now_dt - window_seconds
        within == Append(WithinWindow(history, cutoff), new_value)
    IN  CountChanges(within) > max_changes

\* key_entry.get("last_sent_ts") / .get("flap_history", [])
LastSentOf(entry) == IF "last_sent_ts" \in DOMAIN entry THEN entry["last_sent_ts"] ELSE <<>>
HistoryOf(entry) == IF "flap_history" \in DOMAIN entry THEN entry["flap_history"] ELSE <<>>

\* a history append that stores the pair twice
AppendHistoryTwice(entry, now_dt, fv) ==
    Put(entry, "flap_history",
        HistoryOf(entry) \o <<<<isoformat(now_dt), fv>>, <<isoformat(now_dt), fv>>>>)

\* hist.append([now_dt.isoformat(), fv]); entry["flap_history"] = hist
AppendHistory(entry, now_dt, fv) ==
    Put(entry, "flap_history", Append(HistoryOf(entry), <<isoformat(now_dt), fv>>))

\* "Keep and mark sent" without the last_sent_ts update
MarkSentForgotten(entry, now_dt) == entry

\* key_entry["last_sent_ts"] = now_dt.isoformat()
MarkSent(entry, now_dt) == Put(entry, "last_sent_ts", isoformat(now_dt))

\* One iteration of the loop of run_dedupe_cli on record rec: the new keys
\* dict and the decision.  key_entry and fk_entry are Python references: they
\* are one object exactly when both keys are equal and the key is already in
\* keys; when the key is new both are fresh dicts, and the later
\* keys[key] = key_entry replaces the entry stored under flap_key.
DedupeRecord(keys, rec, cfg, clock) ==
    LET now_dt == _event_ts(rec, clock)
        key == _key_from_fields(rec, cfg.key_fields)
        key_entry == GetOr(keys, key, <<>>)
        last_sent_ts == LastSentOf(key_entry)
        dup == _is_duplicate(now_dt, last_sent_ts, cfg.ttl_seconds,
                             cfg.min_interval_seconds)
        fv == _flap_value(rec, cfg.flap.value_field)
        flap_key == _key_from_fields(rec, cfg.flap.key_fields)
        fk_entry == GetOr(keys, flap_key, <<>>)
        hist == HistoryOf(fk_entry)
        flapping == _is_flapping(now_dt, hist, fv, cfg.flap.window_seconds,
                                 cfg.flap.max_changes)
        fk_after == AppendHistory(fk_entry, now_dt, fv)
        keys_flap == Put(keys, flap_key, fk_after)
        aliased == key = flap_key /\ key \in DOMAIN keys
        base == [now_dt |-> now_dt, key |-> key, flap_key |-> flap_key,
                 last_before |-> last_sent_ts, fv |-> fv]
    IN  IF dup[1]
        THEN [base EXCEPT !.flap_key = ""] @@
             [outcome |-> dup[2],
              keys |-> IF cfg.flap.enabled
                       THEN Put(keys, key, AppendHistory(key_entry, now_dt, fv))
                       ELSE keys]
        ELSE IF cfg.flap.enabled /\ flapping
        THEN base @@ [outcome |-> "flapping", keys |-> keys_flap]
        ELSE IF cfg.flap.enabled
        THEN base @@
             [outcome |-> "emitted",
              keys |-> Put(keys_flap, key,
                           MarkSent(IF aliased THEN fk_after ELSE key_entry, now_dt))]
        ELSE [base EXCEPT !.flap_key = ""] @@
             [outcome |-> "emitted",
              keys |-> Put(keys, key, MarkSent(key_entry, now_dt))]

\* history only: the last_sent_ts of every key of a keys dict
LastSentMap(keys) == [k \in DOMAIN keys |-> LastSentOf(keys[k])]

EmptyState(clock) == [version |-> 1, updated_at |-> isoformat(clock), keys |-> <<>>]

\* run_dedupe_cli, lines 219-225: load config, matched input and prior state
dedupe_load ==
    /\ d_pc = "load"
    /\ IF d_state_file = <<>>
       THEN /\ d_state' = EmptyState(d_clock)
            /\ d_clock' = d_clock + 1
       ELSE /\ d_state' = d_state_file[1]
            /\ d_clock' = d_clock
    /\ d_kept' = <<>>
    /\ d_suppressed' = 0
    /\ d_idx' = 1
    /\ d_prior' = d_state_file
    /\ d_pc' = "loop"
    /\ UNCHANGED <<d_cfg, d_runs, d_run, d_state_file, d_out, d_metrics, d_log>>
    /\ UNCHANGED NotDedupe

\* run_dedupe_cli, lines 227-271: one record
dedupe_record ==
    /\ d_pc = "loop"
    /\ d_idx <= Len(d_runs[d_run])
    /\ LET rec == d_runs[d_run][d_idx]
           r == DedupeRecord(d_state.keys, rec, d_cfg, d_clock)
       IN  /\ d_state' = [d_state EXCEPT !.keys = r.keys]
           /\ d_clock' = IF ReadsClock(rec) THEN d_clock + 1 ELSE d_clock
           /\ d_kept' = IF r.outcome = "emitted" THEN Append(d_kept, rec) ELSE d_kept
           /\ d_suppressed' = IF r.outcome = "emitted" THEN d_suppressed
                              ELSE d_suppressed + 1
           /\ d_log' = Append(d_log,
                  [run |-> d_run, idx |-> d_idx, rec |-> rec, key |-> r.key,
                   flap_key |-> r.flap_key, t |-> r.now_dt, fv |-> r.fv,
                   last_before |-> r.last_before, outcome |-> r.outcome,
                   lasts_before |-> LastSentMap(d_state.keys),
                   lasts_after |-> LastSentMap(r.keys)])
    /\ d_idx' = d_idx + 1
    /\ UNCHANGED <<d_cfg, d_runs, d_run, d_pc, d_state_file, d_out, d_metrics, d_prior>>
    /\ UNCHANGED NotDedupe

\* a state file opened for writing and not yet written out
TruncatedState == [truncated |-> TRUE]

\* lines 273-274, _save_state and the open("w") of _write_json: the state is
\* stamped and the state file truncated
dedupe_save_open ==
    /\ d_pc = "loop"
    /\ d_idx > Len(d_runs[d_run])
    /\ d_state' = [d_state EXCEPT !.updated_at = isoformat(d_clock)]
    /\ d_clock' = d_clock + 1
    /\ d_state_file' = <<TruncatedState>>
    /\ d_pc' = "save"
    /\ UNCHANGED <<d_cfg, d_runs, d_run, d_idx, d_kept, d_suppressed, d_out, d_metrics,
                   d_log, d_prior>>
    /\ UNCHANGED NotDedupe

\* the process dies, or json.dump fails, while the state file is being written
dedupe_crash ==
    /\ d_pc = "save"
    /\ d_pc' = "crashed"
    /\ UNCHANGED <<d_cfg, d_runs, d_run, d_idx, d_state, d_state_file, d_kept,
                   d_suppressed, d_out, d_metrics, d_clock, d_log, d_prior>>
    /\ UNCHANGED NotDedupe

\* json.dump of the state, then lines 276-291: write deduped output and metrics
dedupe_finish ==
    /\ d_pc = "save"
    /\ d_state_file' = <<d_state>>
    /\ d_out' = d_kept
    /\ d_metrics' = [input |-> Len(d_runs[d_run]), kept |-> Len(d_kept),
                     suppressed |-> d_suppressed]
    /\ d_pc' = "done"
    /\ UNCHANGED <<d_cfg, d_runs, d_run, d_idx, d_state, d_kept, d_suppressed, d_clock,
                   d_log, d_prior>>
    /\ UNCHANGED NotDedupe

\* the next invocation of the command on the same state file
dedupe_next_run ==
    /\ d_pc = "done"
    /\ d_run < Len(d_runs)
    /\ d_run' = d_run + 1
    /\ d_pc' = "load"
    /\ UNCHANGED <<d_cfg, d_runs, d_idx, d_state, d_state_file, d_kept,
                   d_suppressed, d_out, d_metrics, d_clock, d_log, d_prior>>
    /\ UNCHANGED NotDedupe

DedupeNext ==
    \/ dedupe_load \/ dedupe_record \/ dedupe_save_open \/ dedupe_crash
    \/ dedupe_finish \/ dedupe_next_run

\* --- dedupe inputs ---

DRec(sub, sev, ts) ==
    [subscription_id |-> sub,
     event |-> [topic |-> "policy.enforcement", severity |-> sev,
                asset_id |-> "a1", ts |-> ts]]

\* a record whose event has no "ts"
DRecNoTs(sub, sev) ==
    [subscription_id |-> sub,
     event |-> [topic |-> "policy.enforcement", severity |-> sev, asset_id |-> "a1"]]

RecPool ==
    {DRec("s1", "low", isoformat(0)), DRec("s1", "high", isoformat(60)),
     DRec("s1", "low", isoformat(400)), DRec("s1", "high", isoformat(3700)),
     DRec("s2", "low", isoformat(60)), DRec("s2", "high", isoformat(400)),
     DRecNoTs("s1", "medium")}

\* defaults of _load_cfg
DefaultTtl == 3600
DefaultMinInterval == 300
DefaultWindow == 1800
DefaultMaxChanges == 3

FlapCfg(enabled, key_fields, window_seconds, max_changes) ==
    [enabled |-> enabled, key_fields |-> key_fields,
     value_field |-> <<"event", "severity">>,
     window_seconds |-> window_seconds, max_changes |-> max_changes]

DedupeCfg(ttl, min_interval, key_fields, flap) ==
    [ttl_seconds |-> ttl, min_interval_seconds |-> min_interval,
     key_fields |-> key_fields, flap |-> flap]

BySub == <<<<"subscription_id">>>>
ByAsset == <<<<"event", "asset_id">>>>
BySubAsset == <<<<"subscription_id">>, <<"event", "asset_id">>>>

\* key configurations: (key_fields, flap.key_fields), equal or different
KeyConfigs == {<<BySub, BySub>>, <<<<>>, <<>>>>, <<BySub, ByAsset>>, <<BySubAsset, ByAsset>>}

CfgPool ==
    {DedupeCfg(DefaultTtl, DefaultMinInterval, BySub,
               FlapCfg(FALSE, <<>>, DefaultWindow, DefaultMaxChanges)),
     DedupeCfg(400, 60, BySub, FlapCfg(TRUE, BySub, DefaultWindow, 0)),
     DedupeCfg(DefaultTtl, DefaultMinInterval, <<>>,
               FlapCfg(TRUE, ByAsset, DefaultWindow, 1)),
     DedupeCfg(60, 60, BySubAsset, FlapCfg(TRUE, ByAsset, 400, 1))}

MaxRecs == 3

\* the matched input of one run, or of two runs on the same state file
Tapes ==
    UNION {{<<a>>} \cup {<<SubSeq(a, 1, k), SubSeq(a, k + 1, Len(a))>> :
                              k \in 1..(Len(a) - 1)} :
           a \in SeqUpTo(RecPool, MaxRecs)}

\* scenario 2 of the specification: T, T+60s, T+400s, T+3700s on one key
CooldownTape ==
    <<<<DRec("s1", "low", isoformat(0)), DRec("s1", "low", isoformat(60)),
        DRec("s1", "low", isoformat(400)), DRec("s1", "low", isoformat(3700))>>>>
CooldownCfgs ==
    {DedupeCfg(DefaultTtl, DefaultMinInterval, kc[1],
               FlapCfg(en, kc[2], DefaultWindow, DefaultMaxChanges)) :
        kc \in KeyConfigs, en \in BOOLEAN}

\* scenario 3 of the specification: low, high, low, high, low at 5 minutes
FlapTape ==
    <<<<DRec("s1", "low", isoformat(0)), DRec("s1", "high", isoformat(300)),
        DRec("s1", "low", isoformat(600)), DRec("s1", "high", isoformat(900)),
        DRec("s1", "low", isoformat(1200))>>>>
FlapCfgs ==
    {DedupeCfg(ttl, ttl, kc[1], FlapCfg(TRUE, kc[2], DefaultWindow, DefaultMaxChanges)) :
        kc \in KeyConfigs, ttl \in {0, 300}}

\* the wall clock, in seconds, when the first run starts
DedupeStart == 5000

DedupeInit ==
    /\ \/ /\ d_cfg \in CfgPool
          /\ d_runs \in Tapes
       \/ /\ d_cfg \in CooldownCfgs
          /\ d_runs = CooldownTape
       \/ /\ d_cfg \in FlapCfgs
          /\ d_runs = FlapTape
    /\ d_run = 1 /\ d_idx = 0 /\ d_pc = "load"
    /\ d_state = <<>> /\ d_state_file = <<>> /\ d_kept = <<>> /\ d_suppressed = 0
    /\ d_out = <<>> /\ d_metrics = <<>> /\ d_clock = DedupeStart /\ d_log = <<>>
    /\ d_prior = <<>>

DedupeIdle ==
    /\ d_cfg = <<>> /\ d_runs = <<>> /\ d_run = 0 /\ d_idx = 0 /\ d_pc = "idle"
    /\ d_state = <<>> /\ d_state_file = <<>> /\ d_kept = <<>> /\ d_suppressed = 0
    /\ d_out = <<>> /\ d_metrics = <<>> /\ d_clock = 0 /\ d_log = <<>>
    /\ d_prior = <<>>

----------------------------------------------------------------------------

\* --- claims on dedupe ---

Emitted(n) == d_log[n].outcome = "emitted"
DupSuppressed(n) == d_log[n].outcome \in {"cooldown", "duplicate_ttl"}
Outcomes == [n \in 1..Len(d_log) |-> d_log[n].outcome]

\* C3: two records emitted on the same dedupe key, in one run or in
\* different runs on the same state file, with event times t1 < t2 have
\* t2 - t1 >= min_interval_seconds.
C3_EmissionsMinIntervalApart ==
    \A i, j \in 1..Len(d_log) :
        (/\ Emitted(i) /\ Emitted(j)
         /\ d_log[i].key = d_log[j].key
         /\ d_log[i].t < d_log[j].t)
        => d_log[j].t - d_log[i].t >= d_cfg.min_interval_seconds

\* C3 witness: two emissions on one key in different runs, and a record on
\* that key suppressed in between.
C3_Witness ==
    \E i, j, k \in 1..Len(d_log) :
        /\ i < k /\ k < j
        /\ Emitted(i) /\ Emitted(j) /\ DupSuppressed(k)
        /\ d_log[i].key = d_log[j].key /\ d_log[k].key = d_log[i].key
        /\ d_log[i].t < d_log[j].t
        /\ d_log[i].run # d_log[j].run

\* C4: with age = t - last_sent_ts of the record's dedupe-key entry, the
\* record is suppressed as cooldown when age < min_interval_seconds, as
\* duplicate_ttl when min_interval_seconds <= age < ttl_seconds, and passes
\* the duplicate check when age >= ttl_seconds or the entry has no
\* last_sent_ts; a suppressed record moves no last_sent_ts; and with 300 /
\* 3600 the records at T, T+60, T+400, T+3700 on one key are emitted,
\* cooldown, duplicate_ttl, emitted.
C4_DuplicateCheckByAge ==
    /\ \A n \in 1..Len(d_log) :
          LET e == d_log[n]
              age == e.t - _parse_iso(e.last_before)[1]
          IN  /\ e.last_before = <<>> => ~DupSuppressed(n)
              /\ e.last_before # <<>> =>
                    /\ age < d_cfg.min_interval_seconds => e.outcome = "cooldown"
                    /\ (d_cfg.min_interval_seconds <= age /\ age < d_cfg.ttl_seconds)
                          => e.outcome = "duplicate_ttl"
                    /\ age >= d_cfg.ttl_seconds => ~DupSuppressed(n)
              /\ DupSuppressed(n) => e.lasts_after = e.lasts_before
    /\ (d_runs = CooldownTape /\ d_cfg \in CooldownCfgs /\ Len(d_log) = 4)
          => /\ Outcomes = <<"emitted", "cooldown", "duplicate_ttl", "emitted">>
             /\ d_log[4].lasts_after[d_log[4].key] = isoformat(3700)

\* C4 witness: the four records of the scenario are processed and the run is
\* finished.
C4_Witness ==
    /\ d_runs = CooldownTape /\ d_cfg \in CooldownCfgs
    /\ d_pc = "done" /\ Len(d_log) = 4
    /\ Len(d_out) = 2

\* C5 (as claimed): from empty state, flap enabled with window 1800 and max
\* 3, the records low, high, low, high, low at 5-minute intervals on one flap
\* key, none suppressed by the duplicate check, give four emissions and a
\* fifth record suppressed as flapping, for every key configuration.
C5_FifthRecordFlapping ==
    (/\ d_runs = FlapTape /\ d_cfg \in FlapCfgs
     /\ Len(d_log) = 5
     /\ \A n \in 1..5 : ~DupSuppressed(n))
    => Outcomes = <<"emitted", "emitted", "emitted", "emitted", "flapping">>

----------------------------------------------------------------------------
\* a whole execution of run_dedupe_cli from the state file prior (<<>> when
\* absent) with the wall clock at clock when it starts: the deduped output
\* and the state written
RECURSIVE DedupeLoop(_, _, _, _, _)
DedupeLoop(keys, recs, cfg, clock, kept) ==
    IF Len(recs) = 0 THEN [keys |-> keys, clock |-> clock, kept |-> kept]
    ELSE LET r == DedupeRecord(keys, recs[1], cfg, clock)
         IN  DedupeLoop(r.keys, Tail(recs), cfg,
                        IF ReadsClock(recs[1]) THEN clock + 1 ELSE clock,
                        IF r.outcome = "emitted" THEN Append(kept, recs[1]) ELSE kept)

RunDedupe(prior, recs, cfg, clock) ==
    LET state == IF prior = <<>> THEN EmptyState(clock) ELSE prior[1]
        start == IF prior = <<>> THEN clock + 1 ELSE clock
        loop == DedupeLoop(state.keys, recs, cfg, start, <<>>)
    IN  [out |-> loop.kept,
         state |-> [state EXCEPT !.keys = loop.keys,
                                 !.updated_at = isoformat(loop.clock)]]

\* a second execution starts when this one has ended, or some time later
LaterStarts == {d_clock, d_clock + 1000}

\* C11: a second execution of run_dedupe_cli from the same prior state with
\* the same matched input and config writes the same deduped output and the
\* same final state as the one just finished.
C11_DedupeDeterministic ==
    d_pc = "done" =>
        \A c \in LaterStarts :
            LET again == RunDedupe(d_prior, d_runs[d_run], d_cfg, c)
            IN  again.out = d_out /\ again.state = d_state_file[1]

\* the deduped output alone, leaving the state file aside
C11_OutputsDeterministic ==
    d_pc = "done" =>
        \A c \in LaterStarts :
            RunDedupe(d_prior, d_runs[d_run], d_cfg, c).out = d_out

\* the keys and histories of the final state, for inputs whose events all
\* carry a timestamp that parses
C11_KeysDeterministicWithTimestamps ==
    (d_pc = "done" /\ \A n \in 1..Len(d_runs[d_run]) : ~ReadsClock(d_runs[d_run][n])) =>
        \A c \in LaterStarts :
            LET again == RunDedupe(d_prior, d_runs[d_run], d_cfg, c)
            IN  again.out = d_out /\ again.state.keys = d_state_file[1].keys

----------------------------------------------------------------------------
\* C15: the state file is read once at the start of a run and written once
\* at its end, atomically: when the run dies during the state write the file
\* holds the complete prior state or the complete new state.
C15_StateWriteAtomic ==
    d_pc = "crashed" => (d_state_file = d_prior \/ d_state_file = <<d_state>>)

\* apart from the write itself, a run leaves the file as it found it until
\* its end and then holds the new state
C15_ReadOnceWrittenOnce ==
    /\ d_pc = "loop" => d_state_file = d_prior
    /\ d_pc = "done" => d_state_file = <<d_state>>

----------------------------------------------------------------------------
\* the n-th record's event time is earlier than the last_sent_ts of its key
NegativeAge(n) ==
    /\ _parse_iso(d_log[n].last_before) # <<>>
    /\ d_log[n].t < _parse_iso(d_log[n].last_before)[1]

\* C16: a record whose event time is earlier than the last_sent_ts stored for
\* its dedupe key is not a duplicate: it is suppressed neither as cooldown nor
\* as duplicate_ttl.
C16_NegativeAgeNotDuplicate ==
    \A n \in 1..Len(d_log) : NegativeAge(n) => ~DupSuppressed(n)

----------------------------------------------------------------------------
\* the record processed last, and what the state holds for it afterwards
LastLogged == d_log[Len(d_log)]
PassedDuplicateCheck(e) == e.outcome \in {"emitted", "flapping"}
FlapKeyOf(e) == _key_from_fields(e.rec, d_cfg.flap.key_fields)
FlapPairOf(e) == <<isoformat(e.t), _flap_value(e.rec, d_cfg.flap.value_field)>>
StoredHistory(k) == HistoryOf(GetOr(d_state.keys, k, <<>>))

\* C21 (as claimed): with flap enabled, every record that passes the
\* duplicate check has its (t, flap_value) pair stored in the flap history
\* under its flap key, emitted or suppressed as flapping alike: once the
\* record is processed, the history under its flap key ends with that pair
\* (for the first record on a key and for a flap key equal to the dedupe key
\* too).
C21_FlapPairPersisted ==
    (Len(d_log) > 0 /\ d_cfg.flap.enabled /\ PassedDuplicateCheck(LastLogged)) =>
        LET hist == StoredHistory(FlapKeyOf(LastLogged))
        IN  Len(hist) > 0 /\ hist[Len(hist)] = FlapPairOf(LastLogged)

\* the same for records whose flap key differs from their dedupe key or
\* whose key was already in the state
C21_FlapPairPersistedUnlessNewSharedKey ==
    (/\ Len(d_log) > 0 /\ d_cfg.flap.enabled /\ PassedDuplicateCheck(LastLogged)
     /\ ~(/\ LastLogged.outcome = "emitted"
          /\ FlapKeyOf(LastLogged) = LastLogged.key
          /\ LastLogged.key \notin DOMAIN LastLogged.lasts_before)) =>
        LET hist == StoredHistory(FlapKeyOf(LastLogged))
        IN  Len(hist) > 0 /\ hist[Len(hist)] = FlapPairOf(LastLogged)

\* C22 (as claimed): once a record at event time t has gone through the flap
\* check, the history stored under its flap key has no entry older than
\* t - window_seconds.
C22_HistoryWithinWindow ==
    (Len(d_log) > 0 /\ d_cfg.flap.enabled /\ PassedDuplicateCheck(LastLogged)) =>
        LET hist == StoredHistory(FlapKeyOf(LastLogged))
        IN  \A n \in 1..Len(hist) :
                _parse_iso(hist[n][1]) # <<>>
                    => _parse_iso(hist[n][1])[1] >= LastLogged.t - d_cfg.flap.window_seconds

\* C23: a record suppressed by the duplicate or cooldown check is not
\* forwarded and changes nothing in the state keys, except that with flap
\* enabled exactly one (t, flap_value) pair is appended to the flap history
\* of its own dedupe-key entry; every last_sent_ts and the entries of all
\* other keys stay as they were.
C23_DuplicateSuppressionFrame ==
    [][(/\ d_pc = "loop" /\ d_idx' = d_idx + 1
        /\ d_log'[Len(d_log')].outcome \in {"cooldown", "duplicate_ttl"}) =>
          LET rec == d_runs[d_run][d_idx]
              key == _key_from_fields(rec, d_cfg.key_fields)
              pair == <<isoformat(_event_ts(rec, d_clock)),
                        _flap_value(rec, d_cfg.flap.value_field)>>
              before == d_state.keys
              after == d_state'.keys
          IN  /\ d_kept' = d_kept
              /\ DOMAIN after = DOMAIN before
              /\ key \in DOMAIN before
              /\ \A k \in DOMAIN before \ {key} : after[k] = before[k]
              /\ \A k \in DOMAIN before : LastSentOf(after[k]) = LastSentOf(before[k])
              /\ DOMAIN after[key] \ {"flap_history"} = DOMAIN before[key] \ {"flap_history"}
              /\ IF d_cfg.flap.enabled
                 THEN HistoryOf(after[key]) = Append(HistoryOf(before[key]), pair)
                 ELSE after[key] = before[key]]_vars

\* C23 witness: with flap enabled, a record has just been suppressed by the
\* duplicate check while the state holds another key as well, and its pair
\* is the last of its key's history.
C23_Witness ==
    /\ Len(d_log) > 0 /\ d_cfg.flap.enabled
    /\ LastLogged.outcome \in {"cooldown", "duplicate_ttl"}
    /\ Cardinality(DOMAIN d_state.keys) > 1
    /\ LET hist == StoredHistory(LastLogged.key)
       IN  Len(hist) > 1 /\ hist[Len(hist)] = FlapPairOf(LastLogged)

\* C24 (as claimed): a run whose state write fails has written the deduped
\* events file and the metrics of that run before it fails.
C24_OutputsBeforeStateFailure ==
    d_pc = "crashed" =>
        /\ d_metrics # <<>>
        /\ d_metrics.input = Len(d_runs[d_run]) /\ d_metrics.kept = Len(d_kept)
        /\ d_out = d_kept

----------------------------------------------------------------------------
\* records i < j emitted on one dedupe key with no emission on it in between
ConsecutiveEmissions(i, j) ==
    /\ i < j /\ Emitted(i) /\ Emitted(j) /\ d_log[i].key = d_log[j].key
    /\ \A k \in (i + 1)..(j - 1) : ~(Emitted(k) /\ d_log[k].key = d_log[i].key)

\* C28: when min_interval_seconds <= ttl_seconds, two records emitted
\* consecutively on the same dedupe key, in one run or in successive runs on
\* the same state file, have event times at least ttl_seconds apart.
C28_EmissionsTtlApart ==
    d_cfg.min_interval_seconds <= d_cfg.ttl_seconds =>
        \A i, j \in 1..Len(d_log) :
            ConsecutiveEmissions(i, j) => d_log[j].t - d_log[i].t >= d_cfg.ttl_seconds

\* C28 witness: two consecutive emissions on one key in different runs, and
\* between them a record on that key at least min_interval_seconds after the
\* first and suppressed as duplicate_ttl.
C28_Witness ==
    /\ d_cfg.min_interval_seconds < d_cfg.ttl_seconds
    /\ \E i, j, k \in 1..Len(d_log) :
          /\ ConsecutiveEmissions(i, j) /\ i < k /\ k < j
          /\ d_log[i].run # d_log[j].run
          /\ d_log[k].key = d_log[i].key /\ d_log[k].outcome = "duplicate_ttl"
          /\ d_log[k].t - d_log[i].t >= d_cfg.min_interval_seconds

\* C29 (as claimed): with ttl_seconds or min_interval_seconds positive, a
\* second run over the same matched input, on the state file the run just
\* finished has left, emits no record that this run emitted.
C29_RerunEmitsNothingAgain ==
    (d_pc = "done" /\ (d_cfg.ttl_seconds > 0 \/ d_cfg.min_interval_seconds > 0)) =>
        \A c \in LaterStarts :
            LET again == RunDedupe(d_state_file, d_runs[d_run], d_cfg, c).out
            IN  \A n \in 1..Len(again) : \A m \in 1..Len(d_out) : again[n] # d_out[m]

\* the same for inputs whose events all carry a timestamp that parses
C29_RerunEmitsNothingAgainWithTimestamps ==
    (/\ d_pc = "done" /\ (d_cfg.ttl_seconds > 0 \/ d_cfg.min_interval_seconds > 0)
     /\ \A n \in 1..Len(d_runs[d_run]) : ~ReadsClock(d_runs[d_run][n])) =>
        \A c \in LaterStarts :
            LET again == RunDedupe(d_state_file, d_runs[d_run], d_cfg, c).out
            IN  \A n \in 1..Len(again) : \A m \in 1..Len(d_out) : again[n] # d_out[m]

\* the records emitted so far, in order, over all runs
RECURSIVE EmittedFrom(_)
EmittedFrom(n) ==
    IF n > Len(d_log) THEN <<>>
    ELSE (IF Emitted(n) THEN <<d_log[n].rec>> ELSE <<>>) \o EmittedFrom(n + 1)

\* one run over the concatenation of the inputs of both runs, from the same
\* prior state and started when the first run started
OneRun == RunDedupe(<<>>, d_runs[1] \o d_runs[2], d_cfg, DedupeStart)

\* C30 (as claimed): a run on A followed by a run on B with the state file
\* carried over emits the same records in the same order, and ends with the
\* same state keys (last_sent_ts and flap histories), as one run on A
\* followed by B.
C30_SplitRunsSameResult ==
    (d_pc = "done" /\ d_run = 2) =>
        /\ EmittedFrom(1) = OneRun.out
        /\ d_state_file[1].keys = OneRun.state.keys

\* the same for inputs whose events all carry a timestamp that parses
C30_SplitRunsSameResultWithTimestamps ==
    (/\ d_pc = "done" /\ d_run = 2
     /\ \A n \in 1..Len(d_log) : ~ReadsClock(d_log[n].rec)) =>
        /\ EmittedFrom(1) = OneRun.out
        /\ d_state_file[1].keys = OneRun.state.keys

----------------------------------------------------------------------------
(* M10.2  Channels router *)

\* an optional max_per_run is <<>> (None) or <<n>>

\* _route_matches
_route_matches(route, subscription_id, event) ==
    LET m == route.match
    IN  IF TruthyList(m.subscription_ids) /\ subscription_id \notin m.subscription_ids
        THEN FALSE
        ELSE IF TruthyList(m.topics) /\ Get(event, "topic") \notin m.topics THEN FALSE
        ELSE IF TruthyStr(m.severity_at_least)
                /\ Rank(GetOr(event, "severity", "info")) < Rank(m.severity_at_least)
             THEN FALSE
        ELSE TRUE

\* _safe_event_id: idx is the 0-based position of the record
_safe_event_id(event, idx) ==
    IF "id" \in DOMAIN event /\ event["id"] # None /\ event["id"] # ""
    THEN event["id"] ELSE "ev_" \o ToString(idx)

\* str.upper() on the severities
Upper(sev) ==
    CASE sev = "info" -> "INFO" [] sev = "low" -> "LOW" [] sev = "medium" -> "MEDIUM"
      [] sev = "high" -> "HIGH" [] sev = "critical" -> "CRITICAL" [] OTHER -> sev

_format_subject(prefix, subscription_id, event) ==
    LET base == "[" \o Upper(Str(GetOr(event, "severity", "info"))) \o "] "
                \o Str(GetOr(event, "topic", "event")) \o " via " \o subscription_id
    IN  IF TruthyStr(prefix) THEN prefix \o " " \o base ELSE base

\* the file name both stubs write
OutPath(cfg, subscription_id, event, idx) ==
    cfg.outbox_dir \o "/" \o _safe_event_id(event, idx) \o "__" \o subscription_id
    \o ".json"

\* _send_webhook: (ok, info, path, payload written)
_send_webhook(cfg, subscription_id, event, idx, now) ==
    [ok |-> TRUE, info |-> "written",
     path |-> OutPath(cfg, subscription_id, event, idx),
     payload |-> [channel_id |-> cfg.id, type |-> "webhook", ts |-> isoformat(now),
                  subscription_id |-> subscription_id, event |-> event]]

\* _send_email
_send_email(cfg, subscription_id, event, idx, now) ==
    [ok |-> TRUE, info |-> "written",
     path |-> OutPath(cfg, subscription_id, event, idx),
     payload |-> [channel_id |-> cfg.id, type |-> "email", ts |-> isoformat(now),
                  to |-> cfg.to,
                  subject |-> _format_subject(cfg.subject_prefix, subscription_id, event),
                  body |-> [headline |-> "Alert from " \o subscription_id,
                            event |-> event]]]

\* matched_routes = [rt for rt in routes if _route_matches(rt, sub_id, event)]
RECURSIVE MatchedRoutes(_, _, _)
MatchedRoutes(routes, sub_id, event) ==
    IF Len(routes) = 0 THEN <<>>
    ELSE (IF _route_matches(routes[1], sub_id, event) THEN <<routes[1]>> ELSE <<>>)
         \o MatchedRoutes(Tail(routes), sub_id, event)

\* the (route, channel) pairs the two nested loops visit, in order
RECURSIVE Attempts(_)
Attempts(matched_routes) ==
    IF Len(matched_routes) = 0 THEN <<>>
    ELSE [c \in 1..Len(matched_routes[1].channels) |->
             [rt |-> matched_routes[1], chan |-> matched_routes[1].channels[c]]]
         \o Attempts(Tail(matched_routes))

\* the limiter with the channel cap tested before the global cap
LimiterChannelFirst(gl, global_used, chan, used_for_chan) ==
    IF chan.max_per_run # <<>> /\ used_for_chan >= chan.max_per_run[1]
    THEN "channel_rate_limited"
    ELSE IF gl # <<>> /\ global_used >= gl[1] THEN "global_rate_limited"
    ELSE "dispatch"

\* the limiter letting one attempt past a reached cap
LimiterOffByOne(gl, global_used, chan, used_for_chan) ==
    IF gl # <<>> /\ global_used > gl[1] THEN "global_rate_limited"
    ELSE IF chan.max_per_run # <<>> /\ used_for_chan > chan.max_per_run[1]
         THEN "channel_rate_limited"
    ELSE "dispatch"

\* the two limiter tests of run_channels_cli, global first
Limiter(gl, global_used, chan, used_for_chan) ==
    IF gl # <<>> /\ global_used >= gl[1] THEN "global_rate_limited"
    ELSE IF chan.max_per_run # <<>> /\ used_for_chan >= chan.max_per_run[1]
         THEN "channel_rate_limited"
    ELSE "dispatch"

\* "Send via stub": the dispatch on chan.type
Send(chan, sub_id, event, idx, now) ==
    IF chan.type = "webhook" THEN _send_webhook(chan, sub_id, event, idx, now)
    ELSE IF chan.type = "email" THEN _send_email(chan, sub_id, event, idx, now)
    ELSE [ok |-> FALSE, info |-> "unknown_channel_type:" \o chan.type, path |-> "",
          payload |-> <<>>]

Bump(counts, k) == Put(counts, k, GetOr(counts, k, 0) + 1)

\* the skipped counter after a failed send, left as it was
SkippedAfterFailedSendForgotten(skipped) == skipped

\* skipped += 1 in the "else" of "if ok"
SkippedAfterFailedSend(skipped) == skipped + 1

CurRec == r_matched[r_idx + 1]
CurSubId == Str(Get(CurRec, "subscription_id"))
CurEvent == CurRec["event"]
CurRoutes == MatchedRoutes(r_routes, CurSubId, CurEvent)
CurAttempts == Attempts(CurRoutes)

\* move to the next attempt of the record, or to the next record
Advance ==
    IF r_att < Len(CurAttempts)
    THEN r_att' = r_att + 1 /\ r_idx' = r_idx
    ELSE r_att' = 1 /\ r_idx' = r_idx + 1

\* run_channels_cli, lines 205-217
MaxRuns == 2

router_load ==
    /\ r_pc = "load"
    /\ r_sent' = 0 /\ r_skipped' = 0 /\ r_global_used' = 0
    /\ r_per_chan_limit_used' = <<>> /\ r_per_channel_sent' = <<>>
    /\ r_per_channel_skipped' = <<>> /\ r_details' = <<>>
    /\ r_idx' = 0 /\ r_att' = 1
    /\ r_outbox_before' = r_outbox
    /\ r_pc' = "loop"
    /\ UNCHANGED <<r_routes, r_gl, r_matched, r_outbox, r_results_file,
                   r_metrics_file, r_clock, r_run>>
    /\ UNCHANGED NotRouter

\* lines 225-235: no route matches the record
router_no_route ==
    /\ r_pc = "loop" /\ r_idx < Len(r_matched)
    /\ CurRoutes = <<>>
    /\ r_details' = Append(r_details,
          [subscription_id |-> CurSubId, event_id |-> _safe_event_id(CurEvent, r_idx),
           status |-> "skipped", reason |-> "no_route"])
    /\ r_skipped' = r_skipped + 1
    /\ r_idx' = r_idx + 1 /\ r_att' = 1
    /\ UNCHANGED <<r_routes, r_gl, r_matched, r_pc, r_sent, r_global_used,
                   r_per_chan_limit_used, r_per_channel_sent, r_per_channel_skipped,
                   r_outbox, r_results_file, r_metrics_file, r_clock>>
    /\ UNCHANGED <<r_run, r_outbox_before>>
    /\ UNCHANGED NotRouter

\* lines 237-238 on matching routes that have no channel: nothing is attempted
router_no_channel ==
    /\ r_pc = "loop" /\ r_idx < Len(r_matched)
    /\ CurRoutes # <<>> /\ CurAttempts = <<>>
    /\ r_idx' = r_idx + 1 /\ r_att' = 1
    /\ UNCHANGED <<r_routes, r_gl, r_matched, r_pc, r_sent, r_skipped, r_global_used,
                   r_per_chan_limit_used, r_per_channel_sent, r_per_channel_skipped,
                   r_details, r_outbox, r_results_file, r_metrics_file, r_clock>>
    /\ UNCHANGED <<r_run, r_outbox_before>>
    /\ UNCHANGED NotRouter

\* lines 239-270: the attempt is skipped by a limiter
router_rate_limited ==
    /\ r_pc = "loop" /\ r_idx < Len(r_matched)
    /\ r_att <= Len(CurAttempts)
    /\ LET rt == CurAttempts[r_att].rt
           chan == CurAttempts[r_att].chan
           used_for_chan == GetOr(r_per_chan_limit_used, chan.id, 0)
           verdict == Limiter(r_gl, r_global_used, chan, used_for_chan)
       IN  /\ verdict # "dispatch"
           /\ r_per_channel_skipped' = Bump(r_per_channel_skipped, chan.id)
           /\ r_details' = Append(r_details,
                 [subscription_id |-> CurSubId, route_id |-> rt.id,
                  channel_id |-> chan.id,
                  event_id |-> _safe_event_id(CurEvent, r_idx),
                  status |-> "skipped", reason |-> verdict])
    /\ r_skipped' = r_skipped + 1
    /\ Advance
    /\ UNCHANGED <<r_routes, r_gl, r_matched, r_pc, r_sent, r_global_used,
                   r_per_chan_limit_used, r_per_channel_sent, r_outbox,
                   r_results_file, r_metrics_file, r_clock>>
    /\ UNCHANGED <<r_run, r_outbox_before>>
    /\ UNCHANGED NotRouter

\* lines 272-295: the stub is called and reports ok
router_send ==
    /\ r_pc = "loop" /\ r_idx < Len(r_matched)
    /\ r_att <= Len(CurAttempts)
    /\ LET rt == CurAttempts[r_att].rt
           chan == CurAttempts[r_att].chan
           used_for_chan == GetOr(r_per_chan_limit_used, chan.id, 0)
           res == Send(chan, CurSubId, CurEvent, r_idx, r_clock)
       IN  /\ Limiter(r_gl, r_global_used, chan, used_for_chan) = "dispatch"
           /\ res.ok
           /\ r_outbox' = Put(r_outbox, res.path, res.payload)
           /\ r_clock' = r_clock + 1
           /\ r_sent' = r_sent + 1
           /\ r_global_used' = r_global_used + 1
           /\ r_per_chan_limit_used' = Put(r_per_chan_limit_used, chan.id, used_for_chan + 1)
           /\ r_per_channel_sent' = Bump(r_per_channel_sent, chan.id)
           /\ r_details' = Append(r_details,
                 [subscription_id |-> CurSubId, route_id |-> rt.id,
                  channel_id |-> chan.id,
                  event_id |-> _safe_event_id(CurEvent, r_idx),
                  status |-> "sent", info |-> res.info, out_path |-> res.path])
    /\ Advance
    /\ UNCHANGED <<r_routes, r_gl, r_matched, r_pc, r_skipped, r_per_channel_skipped,
                   r_results_file, r_metrics_file>>
    /\ UNCHANGED <<r_run, r_outbox_before>>
    /\ UNCHANGED NotRouter

\* lines 277-278, 296-308: the channel type is unknown
router_send_failed ==
    /\ r_pc = "loop" /\ r_idx < Len(r_matched)
    /\ r_att <= Len(CurAttempts)
    /\ LET rt == CurAttempts[r_att].rt
           chan == CurAttempts[r_att].chan
           used_for_chan == GetOr(r_per_chan_limit_used, chan.id, 0)
           res == Send(chan, CurSubId, CurEvent, r_idx, r_clock)
       IN  /\ Limiter(r_gl, r_global_used, chan, used_for_chan) = "dispatch"
           /\ ~res.ok
           /\ r_per_channel_skipped' = Bump(r_per_channel_skipped, chan.id)
           /\ r_details' = Append(r_details,
                 [subscription_id |-> CurSubId, route_id |-> rt.id,
                  channel_id |-> chan.id,
                  event_id |-> _safe_event_id(CurEvent, r_idx),
                  status |-> "skipped", reason |-> res.info])
    /\ r_skipped' = SkippedAfterFailedSend(r_skipped)
    /\ Advance
    /\ UNCHANGED <<r_routes, r_gl, r_matched, r_pc, r_sent, r_global_used,
                   r_per_chan_limit_used, r_per_channel_sent, r_outbox,
                   r_results_file, r_metrics_file, r_clock>>
    /\ UNCHANGED <<r_run, r_outbox_before>>
    /\ UNCHANGED NotRouter

\* lines 273-276 when _write_json raises inside the stub (the outbox cannot be
\* written): neither stub nor run_channels_cli catches it, the command ends
router_write_failed ==
    /\ r_pc = "loop" /\ r_idx < Len(r_matched)
    /\ r_att <= Len(CurAttempts)
    /\ LET chan == CurAttempts[r_att].chan
           used_for_chan == GetOr(r_per_chan_limit_used, chan.id, 0)
       IN  /\ Limiter(r_gl, r_global_used, chan, used_for_chan) = "dispatch"
           /\ chan.type \in {"webhook", "email"}
    /\ r_pc' = "failed"
    /\ UNCHANGED <<r_routes, r_gl, r_matched, r_idx, r_att, r_sent, r_skipped,
                   r_global_used, r_per_chan_limit_used, r_per_channel_sent,
                   r_per_channel_skipped, r_details, r_outbox, r_results_file,
                   r_metrics_file, r_clock, r_run, r_outbox_before>>
    /\ UNCHANGED NotRouter

\* lines 310-320: write results and metrics, return (sent, skipped)
router_finish ==
    /\ r_pc = "loop" /\ r_idx >= Len(r_matched)
    /\ r_results_file' = <<r_details>>
    /\ r_metrics_file' = <<[sent |-> r_sent, skipped |-> r_skipped,
                            per_channel_sent |-> r_per_channel_sent,
                            per_channel_skipped |-> r_per_channel_skipped,
                            global_limit_max_per_run |-> r_gl]>>
    /\ r_pc' = "done"
    /\ UNCHANGED <<r_routes, r_gl, r_matched, r_idx, r_att, r_sent, r_skipped,
                   r_global_used, r_per_chan_limit_used, r_per_channel_sent,
                   r_per_channel_skipped, r_details, r_outbox, r_clock>>
    /\ UNCHANGED <<r_run, r_outbox_before>>
    /\ UNCHANGED NotRouter

\* the command is run again over the same input and config; the outbox stays
router_next_run ==
    /\ r_pc = "done" /\ r_run < MaxRuns
    /\ r_run' = r_run + 1
    /\ r_pc' = "load"
    /\ UNCHANGED <<r_routes, r_gl, r_matched, r_idx, r_att, r_sent, r_skipped,
                   r_global_used, r_per_chan_limit_used, r_per_channel_sent,
                   r_per_channel_skipped, r_details, r_outbox, r_results_file,
                   r_metrics_file, r_clock, r_outbox_before>>
    /\ UNCHANGED NotRouter

RouterNext ==
    \/ router_load \/ router_no_route \/ router_no_channel \/ router_rate_limited
    \/ router_send \/ router_send_failed \/ router_write_failed \/ router_finish
    \/ router_next_run

RouterIdle ==
    /\ r_routes = <<>> /\ r_gl = <<>> /\ r_matched = <<>> /\ r_idx = 0 /\ r_att = 0
    /\ r_pc = "idle" /\ r_sent = 0 /\ r_skipped = 0 /\ r_global_used = 0
    /\ r_per_chan_limit_used = <<>> /\ r_per_channel_sent = <<>>
    /\ r_per_channel_skipped = <<>> /\ r_details = <<>> /\ r_outbox = <<>>
    /\ r_results_file = <<>> /\ r_metrics_file = <<>> /\ r_clock = 0
    /\ r_run = 0 /\ r_outbox_before = <<>>

----------------------------------------------------------------------------
(* Router inputs *)

Chan(type, id, dir, cap) ==
    [type |-> type, id |-> id, outbox_dir |-> dir, to |-> <<"ops@example.org">>,
     subject_prefix |-> "[Verdantis]", max_per_run |-> cap]
Hook(cap) == Chan("webhook", "hook1", "outbox/webhook", cap)
Mail(cap) == Chan("email", "mail1", "outbox/email", cap)
Sms == Chan("sms", "sms1", "outbox/sms", <<>>)

Route(id, subs, topics, sev, chans) ==
    [id |-> id,
     match |-> [subscription_ids |-> subs, topics |-> topics, severity_at_least |-> sev],
     channels |-> chans]
RouteAll(wcap) == Route("r_all", {}, {}, None, <<Hook(wcap)>>)
RouteHigh(wcap, ecap) == Route("r_high", {}, {}, "high", <<Hook(wcap), Mail(ecap)>>)
RouteS1(ecap) == Route("r_s1", {"s1"}, {"policy.enforcement"}, None, <<Mail(ecap), Sms>>)
RouteEmpty == Route("r_none", {"s2"}, {}, None, <<>>)
\* the same channel id declared again with another cap
RouteAgain(wcap) == Route("r_again", {}, {}, None, <<Hook(wcap)>>)

Caps == {<<>>, <<0>>, <<1>>}
GlobalCaps == {<<>>, <<1>>, <<2>>}

RoutePool ==
    UNION {{ <<RouteHigh(w, e), RouteS1(e)>>,
             <<RouteAll(w)>>,
             <<RouteS1(e), RouteAll(w)>>,
             <<RouteEmpty, RouteS1(e)>>,
             <<RouteAll(w), RouteAgain(e)>> } : w \in Caps, e \in {<<>>, <<1>>}}

MRec(sub, event) == [subscription_id |-> sub, event |-> event]
MatchedPool ==
    { MRec("s1", [id |-> "e1", topic |-> "policy.enforcement", severity |-> "high"]),
      MRec("s2", [id |-> "e2", topic |-> "sat.change", severity |-> "low"]),
      MRec("s1", [topic |-> "policy.enforcement", severity |-> "low"]) }

MaxMatched == 2

\* ten matched records on one route with one channel
CapsRecords ==
    [k \in 1..10 |->
        MRec("s1", [id |-> "e" \o ToString(k), topic |-> "policy.enforcement",
                    severity |-> "high"])]
CapsChannel3 == <<RouteAll(<<3>>)>>
CapsChannel10 == <<RouteAll(<<10>>)>>
CapsGlobal == <<5>>

RouterInit ==
    /\ \/ /\ r_matched \in SeqUpTo(MatchedPool, MaxMatched)
          /\ r_routes \in RoutePool
          /\ r_gl \in GlobalCaps
       \/ /\ r_matched = CapsRecords
          /\ r_routes \in {CapsChannel3, CapsChannel10}
          /\ r_gl = CapsGlobal
    /\ r_idx = 0 /\ r_att = 1 /\ r_pc = "load"
    /\ r_sent = 0 /\ r_skipped = 0 /\ r_global_used = 0
    /\ r_per_chan_limit_used = <<>> /\ r_per_channel_sent = <<>>
    /\ r_per_channel_skipped = <<>> /\ r_details = <<>> /\ r_outbox = <<>>
    /\ r_results_file = <<>> /\ r_metrics_file = <<>> /\ r_clock = 5000
    /\ r_run = 1 /\ r_outbox_before = <<>>

----------------------------------------------------------------------------
(* Router claims *)

IsSent(d) == d.status = "sent"
SentIn(details) == {n \in 1..Len(details) : IsSent(details[n])}
SentOn(details, chan_id) ==
    {n \in SentIn(details) : details[n].channel_id = chan_id}
SentVia(details, route_id, chan_id) ==
    {n \in SentOn(details, chan_id) : details[n].route_id = route_id}
Prefix(details, n) == SubSeq(details, 1, n)

RouteSlots(idx, sub_id, event) ==
    LET hits == {i \in 1..Len(r_routes) : _route_matches(r_routes[i], sub_id, event)}
        RECURSIVE walk(_)
        walk(i) ==
            IF i > Len(r_routes) THEN <<>>
            ELSE (IF i \in hits
                  THEN [c \in 1..Len(r_routes[i].channels) |->
                           [kind |-> "attempt", idx |-> idx, sub_id |-> sub_id,
                            event |-> event, rt |-> r_routes[i],
                            chan |-> r_routes[i].channels[c]]]
                  ELSE <<>>) \o walk(i + 1)
    IN  IF hits = {}
        THEN <<[kind |-> "no_route", idx |-> idx, sub_id |-> sub_id, event |-> event]>>
        ELSE walk(1)

RECURSIVE SlotsFrom(_)
SlotsFrom(k) ==
    IF k > Len(r_matched) THEN <<>>
    ELSE RouteSlots(k - 1, r_matched[k].subscription_id, r_matched[k].event)
         \o SlotsFrom(k + 1)

Slots == SlotsFrom(1)

KnownSink(chan) == chan.type \in {"webhook", "email"}

\* the decision the spec prescribes for slot n, from the results before it
Prescribed(n) ==
    LET chan == Slots[n].chan
        before == Prefix(r_details, n - 1)
    IN  IF r_gl # <<>> /\ Cardinality(SentIn(before)) >= r_gl[1]
        THEN "global_rate_limited"
        ELSE IF chan.max_per_run # <<>>
                /\ Cardinality(SentOn(before, chan.id)) >= chan.max_per_run[1]
             THEN "channel_rate_limited"
        ELSE IF KnownSink(chan) THEN "sent"
        ELSE "unknown_channel_type:" \o chan.type

Decision(d) == IF IsSent(d) THEN "sent" ELSE d.reason

CapsRun == r_matched = CapsRecords
Reasons == {r_details[n].reason : n \in 1..Len(r_details) \ SentIn(r_details)}

\* C7: each attempt, in record, route and channel order, is skipped with
\* global_rate_limited when the global sent counter has reached the global
\* cap, else skipped with channel_rate_limited when the channel's sent counter
\* has reached its cap, else dispatched, and a send raises both counters by
\* one; ten records on one channel give 3 sent and 7 channel_rate_limited
\* under caps (3, global 5), 5 sent and 5 global_rate_limited under (10, 5).
C7_DecisionOrder ==
    r_pc \in {"loop", "done"} =>
        /\ Len(r_details) <= Len(Slots)
        /\ \A n \in 1..Len(r_details) :
              Slots[n].kind = "attempt" =>
                 /\ Decision(r_details[n]) = Prescribed(n)
                 /\ r_details[n].channel_id = Slots[n].chan.id
                 /\ r_details[n].route_id = Slots[n].rt.id
        /\ r_global_used = Cardinality(SentIn(r_details))
        /\ \A i \in 1..Len(r_routes) : \A c \in 1..Len(r_routes[i].channels) :
              LET id == r_routes[i].channels[c].id
              IN  GetOr(r_per_chan_limit_used, id, 0)
                     = Cardinality(SentOn(r_details, id))
        /\ (r_pc = "done" /\ CapsRun /\ r_routes = CapsChannel3) =>
              /\ r_sent = 3 /\ r_skipped = 7
              /\ SentIn(r_details) = 1..3
              /\ Reasons = {"channel_rate_limited"}
        /\ (r_pc = "done" /\ CapsRun /\ r_routes = CapsChannel10) =>
              /\ r_sent = 5 /\ r_skipped = 5
              /\ SentIn(r_details) = 1..5
              /\ Reasons = {"global_rate_limited"}

\* a finished run in which an attempt found both caps reached
C7_Witness ==
    /\ r_pc = "done"
    /\ \E n \in 1..Len(r_details) :
          /\ Slots[n].kind = "attempt"
          /\ Slots[n].chan.max_per_run # <<>>
          /\ Cardinality(SentOn(Prefix(r_details, n - 1), Slots[n].chan.id))
                >= Slots[n].chan.max_per_run[1]
          /\ r_gl # <<>> /\ Cardinality(SentIn(Prefix(r_details, n - 1))) >= r_gl[1]
          /\ r_details[n].reason = "global_rate_limited"

\* the ten-record run under channel cap 3 has finished
C7_WitnessCaps == r_pc = "done" /\ CapsRun /\ r_routes = CapsChannel3 /\ r_sent = 3

\* C8: a record matching no route yields exactly one result, skipped with
\* no_route; every (record, route, channel) attempt yields exactly one result,
\* sent or skipped; sent + skipped equals the number of results written.
C8_OneResultPerSlot ==
    /\ r_pc \in {"loop", "done"} =>
          /\ r_sent + r_skipped = Len(r_details)
          /\ Len(r_details) <= Len(Slots)
          /\ \A n \in 1..Len(r_details) :
                /\ r_details[n].status \in {"sent", "skipped"}
                /\ r_details[n].subscription_id = Slots[n].sub_id
                /\ r_details[n].event_id = _safe_event_id(Slots[n].event, Slots[n].idx)
                /\ (Slots[n].kind = "no_route") <=>
                      (r_details[n].status = "skipped" /\ r_details[n].reason = "no_route")
                /\ Slots[n].kind = "attempt" =>
                      /\ r_details[n].route_id = Slots[n].rt.id
                      /\ r_details[n].channel_id = Slots[n].chan.id
    /\ r_pc = "done" =>
          /\ Len(r_details) = Len(Slots)
          /\ r_results_file = <<r_details>>
          /\ r_metrics_file[1].sent + r_metrics_file[1].skipped = Len(r_results_file[1])
          /\ r_metrics_file[1].sent = Cardinality(SentIn(r_details))

\* a finished run with a no_route result, a sent one and a failed dispatch
C8_Witness ==
    /\ r_pc = "done"
    /\ \E n \in 1..Len(r_details) : Slots[n].kind = "no_route"
    /\ \E n \in 1..Len(r_details) : IsSent(r_details[n])
    /\ \E n \in 1..Len(r_details) :
          ~IsSent(r_details[n]) /\ r_details[n].reason = "unknown_channel_type:sms"

----------------------------------------------------------------------------
\* the file without the time it was written at
Undated(payload) == [k \in DOMAIN payload \ {"ts"} |-> payload[k]]

\* C12: a second run of run_channels_cli over the same matched input and
\* config writes the same outbox paths with the same contents, so the outbox
\* after the re-run is the outbox before it.
C12_RerunLeavesOutbox ==
    (r_pc = "done" /\ r_run > 1) => r_outbox = r_outbox_before

\* the paths, and the contents apart from the "ts" written into them
C12_RerunSamePathsUndated ==
    (r_pc = "done" /\ r_run > 1) =>
        /\ DOMAIN r_outbox = DOMAIN r_outbox_before
        /\ \A f \in DOMAIN r_outbox : Undated(r_outbox[f]) = Undated(r_outbox_before[f])

\* a re-run that sent something has finished
C12_Witness == r_pc = "done" /\ r_run > 1 /\ r_sent > 0

\* C13: within one run no two sent attempts are written to the same out_path,
\* and the outbox holds one file per sent attempt.
C13_OneFilePerSent ==
    r_pc \in {"loop", "done"} =>
        /\ \A i, j \in SentIn(r_details) :
              i # j => r_details[i].out_path # r_details[j].out_path
        /\ r_run = 1 => Cardinality(DOMAIN r_outbox) = Cardinality(SentIn(r_details))

\* C25 (as claimed): a failed write of a channel's outbox file is not fatal:
\* the attempt is recorded as a skipped result with a reason, no rate-limit
\* counter moves for it, and the run goes on to write results and metrics;
\* so no run ends in the failed write, and a finished run has written both.
C25_SinkFailureNotFatal ==
    /\ r_pc # "failed"
    /\ r_pc = "done" => r_results_file = <<r_details>> /\ r_metrics_file # <<>>

----------------------------------------------------------------------------
(* M11.4  Public portal builder *)

\* _severity_at_least
_severity_at_least(ev_sev, min_sev) == Rank(ev_sev) >= Rank(min_sev)

\* _mask_asset: the pseudonym is a keyed digest of the id, None for ""
_mask_asset(asset_id) == IF asset_id = "" THEN None ELSE "hmac(" \o asset_id \o ")"

\* _to_region
_to_region(aoi_id, regionalization) ==
    IF ~TruthyStr(aoi_id) THEN regionalization.fallback_region
    ELSE GetOr(regionalization.aoi_to_region, aoi_id, regionalization.fallback_region)

\* v or "" for an optional string
OrEmpty(v) == IF v = None THEN "" ELSE v

\* the item with every key kept
KeepEverything(item, keep) == item

\* {k: v for k, v in item.items() if k in keep}
KeepVisible(item, keep) == [k \in DOMAIN item \cap keep |-> item[k]]

\* _sanitize_item; now is the clock when the event's ts does not parse
_sanitize_item(rec, cfg, now) ==
    LET ev == rec.event
        aoi_id == Get(ev, "aoi_id")
        parsed == IF "ts" \in DOMAIN ev THEN _parse_iso(ev.ts) ELSE <<>>
        base == [ts |-> isoformat(IF parsed # <<>> THEN parsed[1] ELSE now),
                 topic |-> Get(ev, "topic"),
                 severity |-> Get(ev, "severity"),
                 aoi_id |-> aoi_id,
                 region |-> _to_region(aoi_id, cfg.regionalization)]
        asset_p == _mask_asset(Str(OrEmpty(Get(ev, "asset_id"))))
        item == IF ~cfg.policy.include_asset_id_field THEN base
                ELSE IF cfg.policy.anonymize_asset_id
                THEN Put(base, "asset_id",
                         IF asset_p # None
                         THEN cfg.policy.asset_pseudonym_prefix \o asset_p ELSE None)
                ELSE Put(base, "asset_id", Get(ev, "asset_id"))
    IN  KeepVisible(item, cfg.policy.visible_fields)

\* the records at or above the severity floor, in input order
RECURSIVE SeverityFloor(_, _)
SeverityFloor(deduped, min_sev) ==
    IF Len(deduped) = 0 THEN <<>>
    ELSE (IF _severity_at_least(Str(GetOr(deduped[1].event, "severity", "info")), min_sev)
          THEN <<deduped[1]>> ELSE <<>>)
         \o SeverityFloor(Tail(deduped), min_sev)

\* list.sort(key=..., reverse=True): descending by key, equal keys in their
\* original order; Key(i) is the key of the i-th element, a tuple of integers
RECURSIVE KeyLess(_, _)
KeyLess(a, b) ==
    IF Len(a) = 0 THEN FALSE
    ELSE a[1] < b[1] \/ (a[1] = b[1] /\ KeyLess(Tail(a), Tail(b)))

SortDescending(items, keys) ==
    LET n == Len(items)
        place(i) == 1 + Cardinality({j \in 1..n :
                          KeyLess(keys[i], keys[j]) \/ (keys[j] = keys[i] /\ j < i)})
    IN  [q \in 1..n |-> items[CHOOSE i \in 1..n : place(i) = q]]

\* x.get("ts", ""): the timestamps are in one format, a missing one sorts lowest
FeedKey(item) == IF "ts" \in DOMAIN item THEN <<item.ts[2]>> ELSE <<-1>>

\* feed_items[: max_items] when max_items > 0
Truncate(items, max_items) ==
    IF max_items > 0 /\ Len(items) > max_items THEN SubSeq(items, 1, max_items) ELSE items

\* the region and severity counts over the feed
ByRegion(feed_items) ==
    LET region(it) == Str(GetOr(it, "region", "Unknown"))
        sev(it) == Str(GetOr(it, "severity", "info"))
        regions == {region(feed_items[n]) : n \in 1..Len(feed_items)}
    IN  [r \in regions |->
           LET mine == {n \in 1..Len(feed_items) : region(feed_items[n]) = r}
           IN  [sv \in {sev(feed_items[n]) : n \in mine} |->
                  Cardinality({n \in mine : sev(feed_items[n]) = sv})]]

\* run_public_build
public_build ==
    /\ p_pc = "start"
    /\ LET filtered == SeverityFloor(p_deduped, p_cfg.policy.min_severity)
           sanitized == [n \in 1..Len(filtered) |->
                            _sanitize_item(filtered[n], p_cfg, p_clock + n - 1)]
           sorted == SortDescending(sanitized,
                                    [n \in 1..Len(sanitized) |-> FeedKey(sanitized[n])])
           feed_items == Truncate(sorted, p_cfg.policy.max_items)
           by_region == ByRegion(feed_items)
       IN  /\ p_feed' = <<feed_items>>
           /\ p_scores' = <<by_region>>
           /\ p_metrics' = <<[built_at |-> isoformat(p_clock + Len(filtered)),
                              feed_items |-> Len(feed_items),
                              regions |-> Cardinality(DOMAIN by_region),
                              config |-> p_cfg.policy]>>
           /\ p_clock' = p_clock + Len(filtered) + 1
    /\ p_pc' = "done"
    /\ UNCHANGED <<p_cfg, p_deduped>>
    /\ UNCHANGED NotPublic

PublicNext == public_build

PublicIdle ==
    /\ p_cfg = <<>> /\ p_deduped = <<>> /\ p_feed = <<>> /\ p_scores = <<>>
    /\ p_metrics = <<>> /\ p_pc = "idle" /\ p_clock = 0

----------------------------------------------------------------------------
(* Public portal inputs *)

DefaultVisibleFields == {"ts", "topic", "severity", "aoi_id", "region"}
DefaultMaxItems == 200

PublicEvent(id, ts, topic, sev, aoi, asset) ==
    [id |-> id, ts |-> ts, topic |-> topic, severity |-> sev, aoi_id |-> aoi,
     asset_id |-> asset, rule_type |-> "emissions",
     payload |-> [owner |-> "ACME Ltd", bundle_id |-> "b1"]]

PublicPool ==
    { [subscription_id |-> "s1",
       event |-> PublicEvent("e1", isoformat(100), "policy.enforcement", "high",
                             "aoi1", "a1")],
      [subscription_id |-> "s2",
       event |-> PublicEvent("e2", isoformat(200), "sat.change", "medium", "aoi9", "")],
      [subscription_id |-> "s1",
       event |-> [id |-> "e3", topic |-> "zk.attest", severity |-> "critical",
                  asset_id |-> "a2", payload |-> [owner |-> "ACME Ltd"]]],
      [subscription_id |-> "s1",
       event |-> PublicEvent("e4", isoformat(50), "sat.change", "low", "aoi1", "a1")] }

VisiblePool ==
    { DefaultVisibleFields,
      DefaultVisibleFields \cup {"asset_id"},
      {"topic", "region", "asset_id", "payload", "id", "rule_type"},
      {} }

PublicCfg(min_sev, max_items, visible, anonymize, include) ==
    [policy |-> [min_severity |-> min_sev, max_items |-> max_items,
                 visible_fields |-> visible, anonymize_asset_id |-> anonymize,
                 include_asset_id_field |-> include,
                 asset_pseudonym_prefix |-> "asset_"],
     regionalization |-> [aoi_to_region |-> [aoi1 |-> "North"],
                          fallback_region |-> "Unknown"]]

PublicCfgPool ==
    { PublicCfg(sv, mx, vis, an, inc) :
        sv \in {"medium", "info"}, mx \in {0, 1, DefaultMaxItems},
        vis \in VisiblePool, an \in BOOLEAN, inc \in BOOLEAN }

MaxDeduped == 2

PublicInit ==
    /\ p_deduped \in SeqUpTo(PublicPool, MaxDeduped)
    /\ p_cfg \in PublicCfgPool
    /\ p_feed = <<>> /\ p_scores = <<>> /\ p_metrics = <<>>
    /\ p_pc = "start" /\ p_clock = 5000

----------------------------------------------------------------------------
(* Public portal claims *)

FeedItems == IF p_feed = <<>> THEN <<>> ELSE p_feed[1]
ItemKeys == {"ts", "topic", "severity", "aoi_id", "region", "asset_id"}

\* C9: every item of the public feed has its keys among visible_fields,
\* carries asset_id only when include_asset_id_field is true, and never carries
\* payload, id, rule_type or any other field of the event.
C9_FeedKeysVisible ==
    \A n \in 1..Len(FeedItems) :
        /\ DOMAIN FeedItems[n] \subseteq p_cfg.policy.visible_fields
        /\ "asset_id" \in DOMAIN FeedItems[n] => p_cfg.policy.include_asset_id_field
        /\ DOMAIN FeedItems[n] \subseteq ItemKeys

\* a feed built with payload, id and rule_type named in visible_fields, from
\* an event that carries them, whose item shows the asset_id
C9_Witness ==
    /\ p_pc = "done"
    /\ "payload" \in p_cfg.policy.visible_fields
    /\ \E n \in 1..Len(FeedItems) : "asset_id" \in DOMAIN FeedItems[n]
    /\ \E k \in 1..Len(p_deduped) : "payload" \in DOMAIN p_deduped[k].event

\* a feed built with asset_id visible and include_asset_id_field off
C9_WitnessHidden ==
    /\ p_pc = "done"
    /\ "asset_id" \in p_cfg.policy.visible_fields
    /\ ~p_cfg.policy.include_asset_id_field
    /\ Len(FeedItems) > 0

----------------------------------------------------------------------------
(* M11.2  Regulator portal builders *)

SEVERITY_WEIGHT == [low |-> 1, medium |-> 2, high |-> 4, critical |-> 8]

\* SEVERITY_WEIGHT.get(sev, 0)
Weight(sev) == IF sev \in DOMAIN SEVERITY_WEIGHT THEN SEVERITY_WEIGHT[sev] ELSE 0

\* _safe_ts_str(str(ev.get("ts"))): the time of the string written
_safe_ts_str(ev, now) ==
    LET parsed == IF "ts" \in DOMAIN ev THEN _parse_iso(ev.ts) ELSE <<>>
    IN  IF parsed # <<>> THEN parsed[1] ELSE now

\* _is_open_violation
_is_open_violation(ev) ==
    IF Str(GetOr(ev, "topic", "")) # "policy.enforcement" THEN FALSE
    ELSE IF Rank(Str(GetOr(ev, "severity", "info"))) < Rank("medium") THEN FALSE
    ELSE ~GetOr(ev, "acknowledged", FALSE)

\* _title_for_violation
_title_for_violation(sub_id, ev) ==
    LET rt == Get(ev, "rule_type")
        asset == IF TruthyStr(Get(ev, "asset_id")) THEN ev.asset_id
                 ELSE IF TruthyStr(Get(ev, "aoi_id")) THEN ev.aoi_id ELSE "unknown"
    IN  "[" \o Upper(Str(GetOr(ev, "severity", "info"))) \o "] "
        \o Str(GetOr(ev, "topic", "event"))
        \o (IF TruthyStr(rt) THEN " / " \o rt ELSE "")
        \o " @ " \o asset \o " (" \o sub_id \o ")"

\* the bundle hint, dropped when a bundle index is given and lacks it
BundleHint(ev, bundles_idx) ==
    LET bid == Get(GetOr(ev, "payload", <<>>), "bundle_id")
    IN  IF bundles_idx # <<>> /\ TruthyStr(bid) /\ bid \notin bundles_idx[1]
        THEN None ELSE bid

\* _build_open_violations; the k-th record reads the clock at now + k
_build_open_violations(deduped, bundles_idx, now) ==
    LET open == {k \in 1..Len(deduped) : _is_open_violation(deduped[k].event)}
        item(k) ==
            LET ev == deduped[k].event
            IN  [id |-> IF TruthyStr(Get(ev, "id")) THEN ev.id
                        ELSE "v_" \o ToString(k - 1),
                 ts |-> isoformat(_safe_ts_str(ev, now + k)),
                 title |-> _title_for_violation(Str(Get(deduped[k], "subscription_id")), ev),
                 severity |-> Get(ev, "severity"),
                 asset_id |-> Get(ev, "asset_id"),
                 aoi_id |-> Get(ev, "aoi_id"),
                 rule_type |-> Get(ev, "rule_type"),
                 topic |-> Get(ev, "topic"),
                 payload |-> GetOr(ev, "payload", <<>>),
                 bundle_id |-> BundleHint(ev, bundles_idx)]
        RECURSIVE collect(_)
        collect(k) ==
            IF k > Len(deduped) THEN <<>>
            ELSE (IF k \in open THEN <<item(k)>> ELSE <<>>) \o collect(k + 1)
        out == collect(1)
    IN  SortDescending(out, [n \in 1..Len(out) |-> <<out[n].ts[2]>>])

\* str(ev.get("asset_id") or "")
HeatAsset(ev) == Str(OrEmpty(Get(ev, "asset_id")))

\* the aggregation loop of _build_heatmap: agg as the list of its entries in
\* insertion order; the k-th record reads the clock at now + k
RECURSIVE HeatAgg(_, _, _)
HeatAgg(deduped, k, now) ==
    IF k = 0 THEN <<>>
    ELSE LET agg == HeatAgg(deduped, k - 1, now)
             ev == deduped[k].event
             asset == HeatAsset(ev)
             w == Weight(Str(GetOr(ev, "severity", "info")))
             ts == _safe_ts_str(ev, now + k)
             at == {n \in 1..Len(agg) : agg[n].asset_id = asset}
         IN  IF asset = "" THEN agg
             ELSE IF at = {}
             THEN Append(agg, [asset_id |-> asset, open_count |-> 1,
                               risk_score |-> w, last_ts |-> ts])
             ELSE LET n == CHOOSE n \in at : TRUE
                      ent == agg[n]
                  IN  [agg EXCEPT ![n] =
                          [asset_id |-> asset, open_count |-> ent.open_count + 1,
                           risk_score |-> ent.risk_score + w,
                           last_ts |-> IF ts > ent.last_ts THEN ts ELSE ent.last_ts]]

\* the sort key without the tie-break on open_count
HeatKeyRiskOnly(it) == <<it.risk_score>>

\* key=lambda x: (x.get("risk_score", 0), x.get("open_count", 0))
HeatKey(it) == <<it.risk_score, it.open_count>>

\* _build_heatmap; an absent lat or lon is <<>>
_build_heatmap(deduped, asset_locs, now) ==
    LET agg == HeatAgg(deduped, Len(deduped), now)
        items == [n \in 1..Len(agg) |->
                    LET loc == GetOr(asset_locs, agg[n].asset_id, <<>>)
                    IN  [asset_id |-> agg[n].asset_id,
                         risk_score |-> agg[n].risk_score,
                         open_count |-> agg[n].open_count,
                         last_ts |-> isoformat(agg[n].last_ts),
                         lat |-> GetOr(loc, "lat", <<>>),
                         lon |-> GetOr(loc, "lon", <<>>)]]
    IN  SortDescending(items, [n \in 1..Len(items) |-> HeatKey(items[n])])

\* run_regulator_build
regulator_build ==
    /\ g_pc = "start"
    /\ LET violations == _build_open_violations(g_deduped, g_bundles, g_clock)
           heatmap == _build_heatmap(g_deduped, g_locs, g_clock + Len(g_deduped))
       IN  /\ g_violations' = <<violations>>
           /\ g_heatmap' = <<heatmap>>
           /\ g_metrics' = <<[built_at |-> isoformat(g_clock + 2 * Len(g_deduped) + 1),
                              violations |-> Len(violations),
                              heatmap_assets |-> Len(heatmap)]>>
    /\ g_clock' = g_clock + 2 * Len(g_deduped) + 2
    /\ g_pc' = "done"
    /\ UNCHANGED <<g_deduped, g_bundles, g_locs>>
    /\ UNCHANGED NotRegulator

RegulatorNext == regulator_build

RegulatorIdle ==
    /\ g_deduped = <<>> /\ g_bundles = <<>> /\ g_locs = <<>> /\ g_violations = <<>>
    /\ g_heatmap = <<>> /\ g_metrics = <<>> /\ g_pc = "idle" /\ g_clock = 0

----------------------------------------------------------------------------
(* Regulator portal inputs *)

HeatRec(asset, sev, ts) ==
    [subscription_id |-> "s1",
     event |-> [topic |-> "policy.enforcement", severity |-> sev, asset_id |-> asset,
                ts |-> ts, payload |-> [bundle_id |-> "b1"]]]

HeatPool ==
    { HeatRec("a1", "high", isoformat(100)),
      HeatRec("a1", "low", isoformat(300)),
      HeatRec("a2", "critical", isoformat(200)),
      HeatRec("a2", "medium", Unparseable),
      HeatRec("a3", "urgent", isoformat(50)),
      HeatRec("", "high", isoformat(400)),
      [subscription_id |-> "s2", event |-> [topic |-> "sat.change", severity |-> "high"]] }

MaxHeat == 3

\* a1 with two high events, a2 with one critical, a3 with five low
Times(n, rec) == [k \in 1..n |-> rec]
HeatA1 == Times(2, HeatRec("a1", "high", isoformat(100)))
HeatA2 == Times(1, HeatRec("a2", "critical", isoformat(200)))
HeatA3 == Times(5, HeatRec("a3", "low", isoformat(300)))
HeatScenarios ==
    { HeatA1 \o HeatA2 \o HeatA3, HeatA3 \o HeatA2 \o HeatA1,
      HeatA2 \o HeatA1 \o HeatA3, HeatA2 \o HeatA3 \o HeatA1,
      SubSeq(HeatA3, 1, 2) \o HeatA2 \o SubSeq(HeatA1, 1, 1) \o SubSeq(HeatA3, 1, 3)
         \o SubSeq(HeatA1, 1, 1) }

RegulatorInit ==
    /\ g_deduped \in SeqUpTo(HeatPool, MaxHeat) \cup HeatScenarios
    /\ g_bundles \in {<<>>, <<{"b2"}>>}
    /\ g_locs \in {<<>>, [a1 |-> [lat |-> 24, lon |-> 54]]}
    /\ g_violations = <<>> /\ g_heatmap = <<>> /\ g_metrics = <<>>
    /\ g_pc = "start" /\ g_clock = 5000

----------------------------------------------------------------------------
(* Regulator portal claims *)

Heatmap == IF g_heatmap = <<>> THEN <<>> ELSE g_heatmap[1]

\* the asset of the k-th input record, "" when it has none
AssetAt(k) ==
    LET ev == g_deduped[k].event
    IN  IF "asset_id" \in DOMAIN ev /\ ev.asset_id # None THEN ev.asset_id ELSE ""

EventsOf(asset) == {k \in 1..Len(g_deduped) : AssetAt(k) = asset}

\* low 1, medium 2, high 4, critical 8, anything else 0
WeightAt(k) ==
    LET ev == g_deduped[k].event
        sev == IF "severity" \in DOMAIN ev THEN ev.severity ELSE "info"
    IN  CASE sev = "low" -> 1 [] sev = "medium" -> 2 [] sev = "high" -> 4
          [] sev = "critical" -> 8 [] OTHER -> 0

RECURSIVE SumWeights(_)
SumWeights(ks) ==
    IF ks = {} THEN 0
    ELSE LET k == CHOOSE k \in ks : TRUE IN WeightAt(k) + SumWeights(ks \ {k})

\* C10: the heatmap has one item per distinct non-empty asset_id of the
\* input, with risk_score the sum of the severity weights of that asset's
\* events and open_count their number, ordered by (risk_score, open_count)
\* descending; a1 (2 high), a2 (1 critical), a3 (5 low) come out as a1 = 8,
\* a2 = 8, a3 = 5 in that order.
C10_HeatmapSumsAndOrder ==
    g_pc = "done" =>
        /\ {Heatmap[n].asset_id : n \in 1..Len(Heatmap)}
              = {AssetAt(k) : k \in 1..Len(g_deduped)} \ {""}
        /\ \A i, j \in 1..Len(Heatmap) :
              Heatmap[i].asset_id = Heatmap[j].asset_id => i = j
        /\ \A n \in 1..Len(Heatmap) :
              /\ Heatmap[n].risk_score = SumWeights(EventsOf(Heatmap[n].asset_id))
              /\ Heatmap[n].open_count = Cardinality(EventsOf(Heatmap[n].asset_id))
        /\ \A i, j \in 1..Len(Heatmap) :
              i < j =>
                 \/ Heatmap[i].risk_score > Heatmap[j].risk_score
                 \/ /\ Heatmap[i].risk_score = Heatmap[j].risk_score
                    /\ Heatmap[i].open_count >= Heatmap[j].open_count
        /\ g_deduped \in HeatScenarios =>
              [n \in 1..Len(Heatmap) |-> <<Heatmap[n].asset_id, Heatmap[n].risk_score>>]
                 = << <<"a1", 8>>, <<"a2", 8>>, <<"a3", 5>> >>

\* the three-asset input, a2 first, has been built
C10_Witness ==
    /\ g_pc = "done"
    /\ g_deduped = HeatA2 \o HeatA1 \o HeatA3
    /\ Len(Heatmap) = 3

\* an input with an event without asset_id and one of unknown severity
C10_WitnessSkips ==
    /\ g_pc = "done"
    /\ \E k \in 1..Len(g_deduped) : AssetAt(k) = ""
    /\ \E n \in 1..Len(Heatmap) : Heatmap[n].risk_score = 0

----------------------------------------------------------------------------
(* M11.2  Audit requests *)

Callers == {1, 2}
MaxCalls == 3

\* the record of run_regulator_request_audit; the clock counts half seconds
\* and request_id keeps the whole seconds, as int(timestamp()) does
AuditRecord(clock, username, role, asset_id, bundle_id, reason) ==
    [request_id |-> "req_" \o ToString(clock \div 2), ts |-> isoformat(clock),
     user |-> username, role |-> role, asset_id |-> asset_id,
     bundle_id |-> bundle_id, reason |-> reason, status |-> "queued"]

\* the log file is <<>> when absent, else <<[complete, items]>>: open("w")
\* truncates it and json.dump completes it
ReadLog(file) ==
    IF file = <<>> THEN <<>>
    ELSE IF file[1].complete THEN file[1].items
    ELSE <<>>

InFlight == {p \in Callers : a_pc[p] # "idle"}

\* lines 273-283: the call builds its record
audit_call(p) ==
    /\ a_pc[p] = "idle" /\ a_calls < MaxCalls
    /\ \E username \in {"rita", "omar"}, asset_id \in {None, "a1"} :
          a_rec' = [a_rec EXCEPT ![p] =
                       <<AuditRecord(a_clock, username, "regulator", asset_id, None,
                                     "inspection")>>]
    /\ a_clock' = a_clock + 1
    /\ a_calls' = a_calls + 1
    /\ a_overlapped' = (a_overlapped \/ InFlight # {})
    /\ a_pc' = [a_pc EXCEPT ![p] = "read"]
    /\ UNCHANGED <<a_file, a_log, a_init, a_done>>
    /\ UNCHANGED NotAudit

\* lines 283-291: read the old log, if any and if it parses; append the record
audit_read(p) ==
    /\ a_pc[p] = "read"
    /\ a_log' = [a_log EXCEPT ![p] = Append(ReadLog(a_file), a_rec[p][1])]
    /\ a_pc' = [a_pc EXCEPT ![p] = "open"]
    /\ UNCHANGED <<a_file, a_rec, a_clock, a_calls, a_init, a_done, a_overlapped>>
    /\ UNCHANGED NotAudit

\* _write_json, line 55: open("w") truncates the file
audit_open(p) ==
    /\ a_pc[p] = "open"
    /\ a_file' = <<[complete |-> FALSE, items |-> <<>>]>>
    /\ a_pc' = [a_pc EXCEPT ![p] = "dump"]
    /\ UNCHANGED <<a_log, a_rec, a_clock, a_calls, a_init, a_done, a_overlapped>>
    /\ UNCHANGED NotAudit

\* _write_json, line 56, and the return: the log is written out
audit_dump(p) ==
    /\ a_pc[p] = "dump"
    /\ a_file' = <<[complete |-> TRUE, items |-> a_log[p]]>>
    /\ a_done' = Append(a_done, a_rec[p][1])
    /\ a_pc' = [a_pc EXCEPT ![p] = "idle"]
    /\ UNCHANGED <<a_log, a_rec, a_clock, a_calls, a_init, a_overlapped>>
    /\ UNCHANGED NotAudit

AuditNext ==
    \E p \in Callers : audit_call(p) \/ audit_read(p) \/ audit_open(p) \/ audit_dump(p)

OldRecord == AuditRecord(0, "rita", "regulator", "a2", "b1", "review")

AuditInit ==
    /\ a_file \in {<<>>, <<[complete |-> TRUE, items |-> <<>>]>>,
                   <<[complete |-> TRUE, items |-> <<OldRecord>>]>>}
    /\ a_init = ReadLog(a_file)
    /\ a_pc = [p \in Callers |-> "idle"]
    /\ a_log = [p \in Callers |-> <<>>]
    /\ a_rec = [p \in Callers |-> <<>>]
    /\ a_clock = 10 /\ a_calls = 0 /\ a_done = <<>> /\ a_overlapped = FALSE

AuditIdle ==
    /\ a_file = <<>> /\ a_init = <<>> /\ a_pc = <<>> /\ a_log = <<>> /\ a_rec = <<>>
    /\ a_clock = 0 /\ a_calls = 0 /\ a_done = <<>> /\ a_overlapped = FALSE

----------------------------------------------------------------------------
(* Audit request claims *)

Range(seq) == {seq[n] : n \in 1..Len(seq)}

\* the log holds what it held at the start, unchanged and in order, then one
\* record per completed call
LogKeepsEverything ==
    LET log == ReadLog(a_file)
    IN  /\ a_file # <<>> => a_file[1].complete
        /\ Len(log) = Len(a_init) + Len(a_done)
        /\ SubSeq(log, 1, Len(a_init)) = a_init
        /\ Range(SubSeq(log, Len(a_init) + 1, Len(log))) = Range(a_done)

\* C14: whenever no call is in flight, after any number of sequential or
\* concurrent calls, the audit log holds every record it held before plus one
\* per completed call, the earlier records unchanged and in order.
C14_NoAuditRequestLost == InFlight = {} => LogKeepsEverything

\* the same for calls that never overlapped
C14_SequentialCallsKeepLog == (InFlight = {} /\ ~a_overlapped) => LogKeepsEverything

\* sequential calls on a log with history have completed
C14_WitnessSequential ==
    InFlight = {} /\ ~a_overlapped /\ Len(a_done) > 1 /\ Len(a_init) > 0

----------------------------------------------------------------------------
(* M11.1  Auth and roles *)

\* hashlib.pbkdf2_hmac("sha256", password, salt, 100000): a digest of both
pbkdf2_hmac(password, salt) == <<"pbkdf2", password, salt>>

\* _hash_password with the salt drawn by secrets.token_bytes
_hash_password(password, salt) == [salt |-> salt, pw_hash |-> pbkdf2_hmac(password, salt)]

\* a password check that hashes without the salt
_verify_password_unsalted(password, salt_hex, hash_hex) ==
    pbkdf2_hmac(password, "") = hash_hex

\* _verify_password
_verify_password(password, salt_hex, hash_hex) ==
    pbkdf2_hmac(password, salt_hex) = hash_hex

\* _get_secret and _sign: HMAC-SHA256 of "header.payload" under the secret
_get_secret == "dev-secret-change-me"
_sign(header, payload, secret) == <<"hmac", header, payload, secret>>

JwtHeader == [alg |-> "HS256", typ |-> "JWT"]

\* issue_token: the token is header.payload.signature
issue_token(username, role, issuer, ttl_seconds, now) ==
    LET payload == [iss |-> issuer, sub |-> username, role |-> role, iat |-> now,
                    exp |-> now + ttl_seconds]
    IN  <<JwtHeader, payload, _sign(JwtHeader, payload, _get_secret)>>

\* verify_token
verify_token(token, now) ==
    IF Len(token) # 3 THEN [ok |-> FALSE, msg |-> "malformed", payload |-> <<>>]
    ELSE IF _sign(token[1], token[2], _get_secret) # token[3]
    THEN [ok |-> FALSE, msg |-> "bad_signature", payload |-> <<>>]
    ELSE IF token[2].exp < now
    THEN [ok |-> FALSE, msg |-> "expired", payload |-> token[2]]
    ELSE [ok |-> TRUE, msg |-> "ok", payload |-> token[2]]

\* build_user_store; salts[i] is the salt drawn for the i-th user
build_user_store(cfg, salts, now) ==
    [issuer |-> cfg.issuer, roles |-> cfg.roles,
     users |-> [i \in 1..Len(cfg.users) |->
                   LET h == _hash_password(cfg.users[i].password, salts[i])
                   IN  [username |-> cfg.users[i].username, role |-> cfg.users[i].role,
                        salt |-> h.salt, pw_hash |-> h.pw_hash]],
     created_at |-> now, version |-> 1]

DefaultTokenTtl == 86400

\* login_and_issue_token; ttl_seconds and issuer are <<>> (None) or <<v>>
login_and_issue_token(store, username, password, ttl_seconds, issuer, now) ==
    LET issuer_eff == IF issuer # <<>> /\ issuer[1] # "" THEN issuer[1] ELSE store.issuer
        ttl_eff == IF ttl_seconds # <<>> /\ ttl_seconds[1] # 0 THEN ttl_seconds[1]
                   ELSE DefaultTokenTtl
        hits == {i \in 1..Len(store.users) : store.users[i].username = username}
    IN  IF hits = {} THEN [ok |-> FALSE, msg |-> "unknown_user", token |-> <<>>]
        ELSE LET rec == store.users[CHOOSE i \in hits : \A j \in hits : i <= j]
             IN  IF ~_verify_password(password, rec.salt, rec.pw_hash)
                 THEN [ok |-> FALSE, msg |-> "invalid_password", token |-> <<>>]
                 ELSE [ok |-> TRUE, msg |-> "ok",
                       token |-> issue_token(username, rec.role, issuer_eff, ttl_eff, now)]

\* logins and verifications made in one behaviour, and seconds that pass
MaxAuthOps == 2
MaxTicks == 2
AuthStart == 100

AuthOps == Len(u_logins) + Len(u_verifies)

\* the credentials tried: each configured user with the configured password
\* or a wrong one, and a stranger
Credentials ==
    UNION {{<<u_cfg.users[i].username, u_cfg.users[i].password>>,
             <<u_cfg.users[i].username, "guess">>} : i \in 1..Len(u_cfg.users)}
    \cup {<<"mallory", "guess">>}

\* build_user_store on the loaded config
auth_build ==
    /\ u_pc = "config"
    /\ \E salt \in {"5a", "c3"} : \E salts \in [1..Len(u_cfg.users) -> {salt}] :
          u_store' = build_user_store(u_cfg, salts, u_clock)
    /\ u_pc' = "ready"
    /\ UNCHANGED <<u_cfg, u_clock, u_logins, u_verifies>>
    /\ UNCHANGED NotAuth

\* login_and_issue_token for a configured user, a wrong password or a stranger
auth_login ==
    /\ u_pc = "ready" /\ AuthOps < MaxAuthOps
    /\ \E cred \in Credentials, opts \in {<<<<>>, <<>>>>, <<<<1>>, <<"portal">>>>} :
          u_logins' = Append(u_logins,
              [username |-> cred[1], password |-> cred[2], at |-> u_clock,
               result |-> login_and_issue_token(u_store, cred[1], cred[2],
                                                opts[1], opts[2], u_clock)])
    /\ UNCHANGED <<u_cfg, u_store, u_clock, u_pc, u_verifies>>
    /\ UNCHANGED NotAuth

\* a token with the role in its payload rewritten and the signature kept
Forged(token) == <<token[1], [token[2] EXCEPT !.role = "regulator"], token[3]>>

\* verify_token on an issued token, or on a forged one
auth_verify ==
    /\ u_pc = "ready" /\ AuthOps < MaxAuthOps
    /\ \E n \in 1..Len(u_logins) :
          /\ u_logins[n].result.ok
          /\ \E token \in {u_logins[n].result.token, Forged(u_logins[n].result.token)} :
                u_verifies' = Append(u_verifies,
                    [token |-> token, at |-> u_clock,
                     result |-> verify_token(token, u_clock)])
    /\ UNCHANGED <<u_cfg, u_store, u_clock, u_pc, u_logins>>
    /\ UNCHANGED NotAuth

\* time passes
auth_tick ==
    /\ u_pc = "ready" /\ u_clock < AuthStart + MaxTicks
    /\ u_clock' = u_clock + 1
    /\ UNCHANGED <<u_cfg, u_store, u_pc, u_logins, u_verifies>>
    /\ UNCHANGED NotAuth

AuthNext == auth_build \/ auth_login \/ auth_verify \/ auth_tick

User(username, password, role) ==
    [username |-> username, password |-> password, role |-> role]

AuthCfg(users) ==
    [issuer |-> "verdantis", default_ttl_seconds |-> 600, users |-> users,
     roles |-> [investor |-> [can |-> {"view_risk_trajectory"}]]]

alice == User("alice", "A!a12345", "investor")

\* test_login_and_verify_happy_path, and stores with more users
AuthCfgPool ==
    { AuthCfg(<<alice>>),
      AuthCfg(<<alice, User("rita", "R3gul8or", "regulator")>>),
      AuthCfg(<<alice, User("bob", "A!a12345", "public")>>),
      AuthCfg(<<alice, User("alice", "Other-pw1", "regulator")>>) }

AuthInit ==
    /\ u_cfg \in AuthCfgPool
    /\ u_store = <<>> /\ u_clock = AuthStart /\ u_pc = "config"
    /\ u_logins = <<>> /\ u_verifies = <<>>

AuthIdle ==
    /\ u_cfg = <<>> /\ u_store = <<>> /\ u_clock = 0 /\ u_pc = "idle"
    /\ u_logins = <<>> /\ u_verifies = <<>>

----------------------------------------------------------------------------
(* Auth claims *)

\* the n-th login was made with the name and configured password of user i
LoginOf(n, i) ==
    /\ u_logins[n].username = u_cfg.users[i].username
    /\ u_logins[n].password = u_cfg.users[i].password

\* the login succeeds and its token verifies, at any time before its expiry,
\* with the user's name and configured role
RoundTrip(n, i) ==
    /\ u_logins[n].result.ok /\ u_logins[n].result.msg = "ok"
    /\ u_logins[n].result.token # <<>>
    /\ \A v \in 1..Len(u_verifies) :
          (u_verifies[v].token = u_logins[n].result.token
             /\ u_verifies[v].at < u_logins[n].result.token[2].exp) =>
                /\ u_verifies[v].result.ok /\ u_verifies[v].result.msg = "ok"
                /\ u_verifies[v].result.payload.sub = u_cfg.users[i].username
                /\ u_verifies[v].result.payload.role = u_cfg.users[i].role

FirstOfName(i) == \A j \in 1..(i - 1) : u_cfg.users[j].username # u_cfg.users[i].username

C17_WitnessExpired ==
    \E v \in 1..Len(u_verifies) : u_verifies[v].result.msg = "expired"

----------------------------------------------------------------------------
(* M11 command line: the regulator commands *)

\* _require_regulator letting every verified token through
_require_regulator_any_role(token, now) ==
    LET v == verify_token(token, now)
    IN  IF ~v.ok THEN [ok |-> FALSE, msg |-> "auth_failed:" \o v.msg, payload |-> <<>>]
        ELSE [ok |-> TRUE, msg |-> "ok", payload |-> v.payload]

\* _require_regulator
_require_regulator(token, now) ==
    LET v == verify_token(token, now)
    IN  IF ~v.ok THEN [ok |-> FALSE, msg |-> "auth_failed:" \o v.msg, payload |-> <<>>]
        ELSE LET role == Str(GetOr(v.payload, "role", ""))
             IN  IF role # "regulator"
                 THEN [ok |-> FALSE, msg |-> "forbidden_role:" \o role, payload |-> <<>>]
                 ELSE [ok |-> TRUE, msg |-> "ok", payload |-> v.payload]

\* commands run in one behaviour
MaxCmds == 2

\* the second the first command runs
CliStart == 1000

\* a token signed with another secret
SignedElsewhere(token) == <<token[1], token[2], _sign(token[1], token[2], "other-secret")>>

\* the token files presented: regulator tokens that are valid, that expire
\* after the first second, that have expired; tokens of other roles; a
\* role that differs in case; forged, foreign and malformed tokens
TokenPool ==
    LET issued(sub, role, ttl) == issue_token(sub, role, "verdantis", ttl, CliStart - 10)
    IN  { issued("rita", "regulator", 600), issued("rita", "regulator", 10),
          issued("rita", "regulator", 5), issued("alice", "investor", 600),
          issued("pat", "public", 600), issued("rita", "Regulator", 600),
          Forged(issued("alice", "investor", 600)),
          SignedElsewhere(issued("rita", "regulator", 600)),
          <<"not-a-token">> }

\* _cmd_reg_build: gate, then run_regulator_build into the output directory
cmd_reg_build ==
    /\ Len(k_hist) < MaxCmds
    /\ \E token \in TokenPool :
          LET gate == _require_regulator(token, k_clock)
          IN  IF ~gate.ok
              THEN /\ k_hist' = Append(k_hist, [cmd |-> "reg-build", token |-> token,
                                                at |-> k_clock, exit |-> 1])
                   /\ UNCHANGED <<k_out, k_log>>
              ELSE /\ k_out' = <<[open_violations |->
                                     _build_open_violations(k_deduped, <<>>, k_clock),
                                  heatmap |->
                                     _build_heatmap(k_deduped, <<>>,
                                                    k_clock + Len(k_deduped))]>>
                   /\ k_hist' = Append(k_hist, [cmd |-> "reg-build", token |-> token,
                                                at |-> k_clock, exit |-> 0])
                   /\ UNCHANGED k_log
    /\ k_clock' = k_clock + 1
    /\ UNCHANGED k_deduped
    /\ UNCHANGED NotCli

\* _cmd_reg_request_audit: gate, then run_regulator_request_audit on the log
cmd_reg_request_audit ==
    /\ Len(k_hist) < MaxCmds
    /\ \E token \in TokenPool :
          LET gate == _require_regulator(token, k_clock)
          IN  IF ~gate.ok
              THEN /\ k_hist' = Append(k_hist, [cmd |-> "reg-request-audit",
                                                token |-> token, at |-> k_clock,
                                                exit |-> 1])
                   /\ UNCHANGED <<k_out, k_log>>
              ELSE /\ k_log' =
                        <<[complete |-> TRUE,
                           items |-> Append(ReadLog(k_log),
                               AuditRecord(2 * k_clock,
                                           Str(GetOr(gate.payload, "sub", "unknown")),
                                           Str(GetOr(gate.payload, "role", "regulator")),
                                           "a1", None, "inspection"))]>>
                   /\ k_hist' = Append(k_hist, [cmd |-> "reg-request-audit",
                                                token |-> token, at |-> k_clock,
                                                exit |-> 0])
                   /\ UNCHANGED k_out
    /\ k_clock' = k_clock + 1
    /\ UNCHANGED k_deduped
    /\ UNCHANGED NotCli

CliNext == cmd_reg_build \/ cmd_reg_request_audit

CliInit ==
    /\ k_deduped \in {<<>>, HeatA1 \o HeatA2}
    /\ k_log \in {<<>>, <<[complete |-> TRUE, items |-> <<OldRecord>>]>>}
    /\ k_out = <<>> /\ k_clock = CliStart /\ k_hist = <<>>

CliIdle ==
    /\ k_deduped = <<>> /\ k_clock = 0 /\ k_out = <<>> /\ k_log = <<>>
    /\ k_hist = <<>>

\* --- claims on the regulator commands ---

\* the token verifies at that second and its role claim is exactly regulator
VerifiedRegulator(token, now) ==
    /\ verify_token(token, now).ok
    /\ verify_token(token, now).payload.role = "regulator"

\* C27: reg-build and reg-request-audit write regulator artefacts or append
\* to the audit log only when the token supplied verifies and its role claim
\* is exactly regulator; with an invalid, expired or other-role token the
\* command returns exit code 1 and leaves every output file and the audit
\* log as they were.
C27_RoleGatingFirst ==
    [][Len(k_hist') = Len(k_hist) + 1 =>
          LET e == k_hist'[Len(k_hist')]
          IN  IF VerifiedRegulator(e.token, e.at)
              THEN e.exit = 0
              ELSE e.exit = 1 /\ k_out' = k_out /\ k_log' = k_log]_vars

\* C27 witness: a regulator token is accepted by reg-build, which writes the
\* artefacts, and the same token, expired a second later, is refused by
\* reg-request-audit, which leaves the log as it was.
C27_Witness ==
    /\ Len(k_hist) = 2
    /\ k_hist[1].cmd = "reg-build" /\ k_hist[1].exit = 0
    /\ k_hist[2].cmd = "reg-request-audit" /\ k_hist[2].exit = 1
    /\ k_hist[2].token = k_hist[1].token
    /\ k_out # <<>> /\ k_log = <<[complete |-> TRUE, items |-> <<OldRecord>>]>>

\* C27 witness: an investor token is refused and nothing is written
C27_WitnessOtherRole ==
    /\ Len(k_hist) = 1 /\ k_hist[1].exit = 1
    /\ verify_token(k_hist[1].token, k_hist[1].at).ok
    /\ k_out = <<>> /\ k_log = <<>>

----------------------------------------------------------------------------
(* M11.3  Investor risk trajectory *)

\* An event time of this command is <<"stamp", day, hour, offset>>: the
\* calendar day and the hour as the ISO string writes them, and its UTC
\* offset in hours ("Z" is offset 0).  A date string is its day number.
Stamp(day, hour, offset) == <<"stamp", day, hour, offset>>

\* _parse_date: fromisoformat(s).date() is the date as written, whatever the
\* offset; <<>> for a string that does not parse
_parse_date(ts) == IF Len(ts) = 4 /\ ts[1] = "stamp" THEN <<ts[2]>> ELSE <<>>

\* str(ev.get("ts")): a missing ts is the string "None", which does not parse
TsString(ev) == IF "ts" \in DOMAIN ev THEN ev["ts"] ELSE Unparseable

\* _build_daily_scores: agg as the list of its (asset, by_date) entries in
\* insertion order, after the first k records
RECURSIVE _build_daily_scores(_, _, _)
_build_daily_scores(deduped, k, today) ==
    IF k = 0 THEN <<>>
    ELSE LET agg == _build_daily_scores(deduped, k - 1, today)
             ev == deduped[k].event
             asset == HeatAsset(ev)
             w == Weight(Str(GetOr(ev, "severity", "low")))
             parsed == _parse_date(TsString(ev))
             date == IF parsed # <<>> THEN parsed[1] ELSE today
             at == {n \in 1..Len(agg) : agg[n].asset_id = asset}
         IN  IF asset = "" THEN agg
             ELSE IF at = {}
             THEN Append(agg, [asset_id |-> asset, by_date |-> Put(<<>>, date, w)])
             ELSE LET n == CHOOSE n \in at : TRUE
                      by_date == agg[n].by_date
                  IN  [agg EXCEPT ![n].by_date =
                          Put(by_date, date, GetOr(by_date, date, 0) + w)]

\* sorted(by_date.keys())
RECURSIVE SortedDates(_)
SortedDates(dates) ==
    IF dates = {} THEN <<>>
    ELSE LET first == CHOOSE d \in dates : \A e \in dates : d <= e
         IN  <<first>> \o SortedDates(dates \ {first})

\* _series_sorted
_series_sorted(by_date) ==
    LET dates == SortedDates(DOMAIN by_date)
    IN  [n \in 1..Len(dates) |-> [date |-> dates[n], risk_score |-> by_date[dates[n]]]]

RECURSIVE SumSeq(_)
SumSeq(vals) == IF Len(vals) = 0 THEN 0 ELSE vals[1] + SumSeq(Tail(vals))

\* _rolling_mean: the i-th mean is over the last window values up to i; it
\* is kept as <<sum, count>>, whose quotient the code rounds to 3 decimals
RollWindow == 7
_rolling_mean(vals, window) ==
    [i \in 1..Len(vals) |->
        LET from == IF i > window THEN i - window + 1 ELSE 1
        IN  <<SumSeq(SubSeq(vals, from, i)), i - from + 1>>]

\* _last_roll as an integer key: 420 = lcm(1..7) times the mean
LastRollKey(item) ==
    LET last == item.series[Len(item.series)].risk_roll7
    IN  <<(last[1] * 420) \div last[2]>>

\* _risk_trajectory
_risk_trajectory(deduped, today) ==
    LET daily == _build_daily_scores(deduped, Len(deduped), today)
        result == [n \in 1..Len(daily) |->
                     LET series == _series_sorted(daily[n].by_date)
                         roll7 == _rolling_mean([i \in 1..Len(series) |->
                                                    series[i].risk_score], RollWindow)
                     IN  [asset_id |-> daily[n].asset_id,
                          series |-> [i \in 1..Len(series) |->
                                         [date |-> series[i].date,
                                          risk_score |-> series[i].risk_score,
                                          risk_roll7 |-> roll7[i]]]]]
    IN  SortDescending(result, [n \in 1..Len(result) |-> LastRollKey(result[n])])

\* run_investor_build: the risk trajectory file
investor_build ==
    /\ i_pc = "start"
    /\ i_traj' = <<_risk_trajectory(i_deduped, i_today)>>
    /\ i_pc' = "done"
    /\ UNCHANGED <<i_deduped, i_today>>
    /\ UNCHANGED NotInvestor

InvestorNext == investor_build

InvestorIdle ==
    /\ i_deduped = <<>> /\ i_today = 0 /\ i_traj = <<>> /\ i_pc = "idle"

\* --- investor inputs ---

InvRec(asset, sev, ts) ==
    [subscription_id |-> "s1",
     event |-> [topic |-> "policy.enforcement", severity |-> sev, asset_id |-> asset,
                ts |-> ts]]

\* events at UTC, east of UTC early in the day, west of UTC late in the day,
\* without a timestamp, without an asset, with an unknown severity
InvestorPool ==
    { InvRec("a1", "high", Stamp(10, 12, 0)),
      InvRec("a1", "low", Stamp(10, 23, 0)),
      InvRec("a1", "critical", Stamp(11, 2, 5)),
      InvRec("a2", "medium", Stamp(10, 22, -3)),
      InvRec("a2", "info", Stamp(11, 9, 0)),
      InvRec("a2", "urgent", Stamp(11, 10, 0)),
      InvRec("", "high", Stamp(10, 1, 0)),
      [subscription_id |-> "s1",
       event |-> [topic |-> "policy.enforcement", severity |-> "medium",
                  asset_id |-> "a1"]] }

MaxInvestor == 2

\* the day the command runs
InvestorToday == 20

InvestorInit ==
    /\ i_deduped \in SeqUpTo(InvestorPool, MaxInvestor)
    /\ i_today = InvestorToday
    /\ i_traj = <<>> /\ i_pc = "start"

\* --- claims on the investor trajectory ---

\* the UTC calendar day of a parsed event time
UtcDay(ts) == ts[2] + ((ts[3] - ts[4]) \div 24)

\* the weights as the specification lists them
ListedWeight(sev) ==
    CASE sev = "low" -> 1 [] sev = "medium" -> 2 [] sev = "high" -> 4
      [] sev = "critical" -> 8 [] OTHER -> 0

\* the deduped events of the asset whose timestamp falls on the UTC day
EventsOn(asset, day) ==
    {k \in 1..Len(i_deduped) :
        LET ev == i_deduped[k].event
        IN  /\ Get(ev, "asset_id") = asset
            /\ _parse_date(TsString(ev)) # <<>>
            /\ UtcDay(ev["ts"]) = day}

RECURSIVE SumListedWeights(_)
SumListedWeights(ks) ==
    IF ks = {} THEN 0
    ELSE LET k == CHOOSE k \in ks : TRUE
         IN  ListedWeight(i_deduped[k].event["severity"]) + SumListedWeights(ks \ {k})

\* the (asset, date, score) triples of the trajectory written
DailyScores ==
    UNION {{<<i_traj[1][n].asset_id, i_traj[1][n].series[i].date,
              i_traj[1][n].series[i].risk_score>> :
               i \in 1..Len(i_traj[1][n].series)} : n \in 1..Len(i_traj[1])}

InvestorAssets == {"a1", "a2"}
InvestorDays == 9..21

DailyScoresAsListed ==
    /\ \A t \in DailyScores : t[3] = SumListedWeights(EventsOn(t[1], t[2]))
    /\ \A asset \in InvestorAssets, day \in InvestorDays :
          EventsOn(asset, day) # {} =>
              <<asset, day, SumListedWeights(EventsOn(asset, day))>> \in DailyScores

\* C26 (as claimed): in the risk trajectory the daily score of (asset_id,
\* date) is the sum of the severity weights (low 1, medium 2, high 4,
\* critical 8, anything else 0) over exactly the deduped events of the asset
\* whose timestamp, converted to UTC, falls on that date; an event with a
\* non-zero offset counts on its UTC date.
C26_DailyScoreByUtcDate ==
    i_pc = "done" => DailyScoresAsListed

\* the same for inputs whose events all carry a timestamp that parses
C26_DailyScoreByUtcDateWithTimestamps ==
    (/\ i_pc = "done"
     /\ \A k \in 1..Len(i_deduped) : _parse_date(TsString(i_deduped[k].event)) # <<>>)
    => DailyScoresAsListed

\* the same for inputs whose events all carry a timestamp at offset 0
C26_DailyScoreAtUtc ==
    (/\ i_pc = "done"
     /\ \A k \in 1..Len(i_deduped) :
           /\ _parse_date(TsString(i_deduped[k].event)) # <<>>
           /\ i_deduped[k].event["ts"][4] = 0)
    => DailyScoresAsListed

----------------------------------------------------------------------------
(* Specifications: one per command, the other commands idle *)

InitFilter ==
    DedupeIdle /\ RouterIdle /\ PublicIdle /\ RegulatorIdle /\ AuditIdle
    /\ AuthIdle /\ InvestorIdle /\ CliIdle
    /\ FilterInit
SpecFilter == InitFilter /\ [][FilterNext]_vars

InitDedupe ==
    FilterIdle /\ RouterIdle /\ PublicIdle /\ RegulatorIdle /\ AuditIdle
    /\ AuthIdle /\ InvestorIdle /\ CliIdle
    /\ DedupeInit
SpecDedupe == InitDedupe /\ [][DedupeNext]_vars

InitRouter ==
    FilterIdle /\ DedupeIdle /\ PublicIdle /\ RegulatorIdle /\ AuditIdle
    /\ AuthIdle /\ InvestorIdle /\ CliIdle
    /\ RouterInit
SpecRouter == InitRouter /\ [][RouterNext]_vars

InitPublic ==
    FilterIdle /\ DedupeIdle /\ RouterIdle /\ RegulatorIdle /\ AuditIdle
    /\ AuthIdle /\ InvestorIdle /\ CliIdle
    /\ PublicInit
SpecPublic == InitPublic /\ [][PublicNext]_vars

InitRegulator ==
    FilterIdle /\ DedupeIdle /\ RouterIdle /\ PublicIdle /\ AuditIdle
    /\ AuthIdle /\ InvestorIdle /\ CliIdle
    /\ RegulatorInit
SpecRegulator == InitRegulator /\ [][RegulatorNext]_vars

InitAudit ==
    FilterIdle /\ DedupeIdle /\ RouterIdle /\ PublicIdle /\ RegulatorIdle
    /\ AuthIdle /\ InvestorIdle /\ CliIdle
    /\ AuditInit
SpecAudit == InitAudit /\ [][AuditNext]_vars

InitAuth ==
    FilterIdle /\ DedupeIdle /\ RouterIdle /\ PublicIdle /\ RegulatorIdle
    /\ AuditIdle /\ InvestorIdle /\ CliIdle
    /\ AuthInit
SpecAuth == InitAuth /\ [][AuthNext]_vars

InitInvestor ==
    FilterIdle /\ DedupeIdle /\ RouterIdle /\ PublicIdle /\ RegulatorIdle
    /\ AuditIdle /\ AuthIdle /\ CliIdle /\ InvestorInit
SpecInvestor == InitInvestor /\ [][InvestorNext]_vars

InitCli ==
    FilterIdle /\ DedupeIdle /\ RouterIdle /\ PublicIdle /\ RegulatorIdle
    /\ AuditIdle /\ AuthIdle /\ InvestorIdle /\ CliInit
SpecCli == InitCli /\ [][CliNext]_vars

====
